---- MODULE Spec2Model ----
(***************************************************************************)
(* A model of the build-command interceptor: the exec trampoline of the    *)
(* preloaded shim (interceptor.cc), its path canonicaliser and analysers,  *)
(* the log writer, and the driver's truncation and compaction of the log   *)
(* (main.cc).                                                              *)
(*                                                                         *)
(* A std::string is a sequence of one-character strings, so that find,     *)
(* replace, rfind(prefix, 0) and operator[] are computed on the text.      *)
(* Positions are 1-based; 0 stands for std::string::npos.                  *)
(***************************************************************************)
EXTENDS Integers, Sequences, FiniteSets, TLC

VARIABLES
  \* ---- the compiler/linker and archiver analysers applied to one argv
  anPc,          \* "input" before analyze_command is applied, "done" after
  anArguments,   \* Command::arguments handed to analyze_command
  anResult       \* the AnalysisResult returned

anVars == <<anPc, anArguments, anResult>>

VARIABLES
  \* ---- make_relative applied to one Command
  rlPc,          \* "input" before make_relative is applied, "done" after
  rlCwd,         \* fs::current_path() of the calling process
  rlInput,       \* the Command as instantiate_command built it
  rlCommand      \* the Command after make_relative

rlVars == <<rlPc, rlCwd, rlInput, rlCommand>>

VARIABLES
  \* ---- one call of the intercepted execve in one process
  pc,            \* the statement the call is at, or how it ended
  filename,      \* execve's filename
  argv,          \* execve's argv: the arguments followed by a null pointer
  envp,          \* execve's envp
  cwd,           \* fs::current_path() of the calling process
  files,         \* the regular files of the file system (normal forms)
  command,       \* the Command of process_command
  logFile,       \* the records appended to the file of the log variable
  calls,         \* the calls of old_execve made so far, with their results
  trace,         \* the functions process_command has called, in order
  exitStatus,    \* the status of exit(), -1 while the process has not exited
  retval         \* the value execve returned to its caller, 0 while none

exVars == <<pc, filename, argv, envp, cwd, files, command, logFile, calls,
            trace, exitStatus, retval>>

VARIABLES
  \* ---- the driver, the log file and the processes appending to it
  drPc,              \* the statement main() is at, or how it ended
  command_log_file,  \* Options::command_log: << >> when --command-log is absent
  root_dir,          \* root_dir of main(), root_dir_ of CommandLog
  log,               \* the Log message ~CommandLog builds
  drOut,             \* serialised bytes the ofstream of ~CommandLog still holds
  drStatus,          \* what std::system returned, -1 before it returns
  drExit,            \* the exit status of the driver, -1 while it runs
  file,              \* the bytes of the command log file
  stream,            \* the bytes ~CommandLog read from the file
  shPc,              \* per appending process: "idle", "writing" or "done"
  shOut              \* per appending process: bytes its ofstream still holds

lgVars == <<drPc, command_log_file, root_dir, log, drOut, drStatus, drExit,
            file, stream, shPc, shOut>>

VARIABLES
  \* ---- the dumper writing a compilation database
  cdPc,      \* "input" before compdb_to_file has run, "done" after
  cdLog,     \* the Log read_log returned
  cdOut      \* the text written to the output file, as JSON tokens

cdVars == <<cdPc, cdLog, cdOut>>

VARIABLES
  \* ---- the environment the driver hands to the processes of the command
  dsPc,       \* "main", "system" once the command runs, "called" after an exec
  dsEnviron,  \* environ of the driver, inherited by the command
  dsCwd,      \* the working directory of the driver
  dsRootDir,  \* root_dir of main()
  dsChildCwd, \* the working directory of the process calling exec
  dsCommand   \* the Command of that call behind make_relative

dsVars == <<dsPc, dsEnviron, dsCwd, dsRootDir, dsChildCwd, dsCommand>>

VARIABLES
  \* ---- one run of the dumper's main()
  dmPc,        \* "parse", "read", "text", "compdb", or "exited"
  dmArgv,      \* the options of the command line, in order
  dmOptions,   \* the Options parse_arguments returned
  dmReadable,  \* the command log can be opened for reading
  dmCreatable, \* the output file can be opened for writing
  dmWritten,   \* the output file holds the dump
  dmExit       \* the exit status, -1 while the dumper runs

dmVars == <<dmPc, dmArgv, dmOptions, dmReadable, dmCreatable, dmWritten, dmExit>>

VARIABLES
  \* ---- the loop of replace_all, one replacement at a time
  rpPc,        \* "loop" while the loop runs, "done" after it
  rpCwd,       \* fs::current_path()
  rpRoot,      \* root_directory, with its trailing slash
  rpRelative,  \* relative_root
  rpStr,       \* the string the loop works on
  rpCount      \* the replacements made so far

rpVars == <<rpPc, rpCwd, rpRoot, rpRelative, rpStr, rpCount>>

VARIABLES
  \* ---- the process that calls the intercepted execve
  prEnviron    \* environ of the calling process itself

prVars == <<prEnviron>>

vars == <<anVars, rlVars, exVars, lgVars, cdVars, dsVars, dmVars, rpVars,
          prVars>>

\* the variables a specification leaves alone
notAn == <<rlVars, exVars, lgVars, cdVars, dsVars,
          dmVars, rpVars, prVars>>
notRl == <<anVars, exVars, lgVars, cdVars, dsVars,
          dmVars, rpVars, prVars>>
notEx == <<anVars, rlVars, lgVars, cdVars, dsVars,
          dmVars, rpVars, prVars>>
notLg == <<anVars, rlVars, exVars, cdVars, dsVars,
          dmVars, rpVars, prVars>>
notCd == <<anVars, rlVars, exVars, lgVars, dsVars,
          dmVars, rpVars, prVars>>
notDs == <<anVars, rlVars, exVars, lgVars, cdVars,
          dmVars, rpVars, prVars>>
notDm == <<anVars, rlVars, exVars, lgVars, cdVars, dsVars, rpVars, prVars>>
notRp == <<anVars, rlVars, exVars, lgVars, cdVars, dsVars, dmVars, prVars>>

-----------------------------------------------------------------------------
(* Bounds of the model                                                     *)

\* arguments after argv0 handed to the analysers
MaxAnalyzeArgs == 3

\* arguments of a Command handed to make_relative
MaxRelArgs == 2

\* entries of the argv of an intercepted call before its null pointer
MaxArgc == 3

\* processes of the build that append to the command log
MaxWriters == 3

\* bytes one write() of a stream carries at most, in units of one field
BlockUnits == 4

\* sysexits.h
EX_CANTCREAT == 73

\* commands of a Log handed to the dumper
MaxLogCommands == 2

-----------------------------------------------------------------------------
(* std::string operations                                                  *)

\* all sequences over S of length at most n
RECURSIVE SeqsUpTo(_, _)
SeqsUpTo(S, n) ==
  IF n = 0 THEN {<<>>}
  ELSE LET shorter == SeqsUpTo(S, n - 1)
       IN shorter \cup {Append(s, x) : s \in {t \in shorter : Len(t) = n - 1}, x \in S}

\* str.find(pat): the first position where pat occurs, 0 (npos) when none
Find(str, pat) ==
  LET hits == {p \in 1..(Len(str) - Len(pat) + 1) :
                  SubSeq(str, p, p + Len(pat) - 1) = pat}
  IN IF hits = {} THEN 0 ELSE CHOOSE p \in hits : \A q \in hits : p <= q

\* str.rfind(prefix, 0) == 0
StartsWith(str, prefix) ==
  /\ Len(str) >= Len(prefix)
  /\ SubSeq(str, 1, Len(prefix)) = prefix

\* str.substr(n): the text after the first n characters
Substr(str, n) == SubSeq(str, n + 1, Len(str))

\* str[0] of a std::string: the terminating NUL when the string is empty
FirstChar(str) == IF Len(str) = 0 THEN "NUL" ELSE str[1]

\* str.insert(pos, rep): nothing is taken out of str
InsertAt(str, pos, n, rep) ==
  SubSeq(str, 1, pos - 1) \o rep \o SubSeq(str, pos, Len(str))

\* str.replace(pos, n, rep)
Replace(str, pos, n, rep) ==
  SubSeq(str, 1, pos - 1) \o rep \o SubSeq(str, pos + n, Len(str))

\* the text after the last '/', the whole text when there is none
RECURSIVE Basename(_)
Basename(str) ==
  LET p == Find(str, <<"/">>)
  IN IF p = 0 THEN str ELSE Basename(Substr(str, p))

-----------------------------------------------------------------------------
(* Texts used as inputs                                                    *)

sGcc       == <<"g", "c", "c">>
sClangPP   == <<"/", "r", "/", "c", "l", "a", "n", "g", "+", "+">>
sLdLld     == <<"l", "d", ".", "l", "l", "d">>
sAr        == <<"a", "r">>
sLlvmAr    == <<"b", "/", "l", "l", "v", "m", "-", "a", "r">>
sCc        == <<"c", "c">>
sTar       == <<"t", "a", "r">>
sDashO     == <<"-", "o">>
sDashI     == <<"-", "I">>
sDashC     == <<"-", "c">>
sDash      == <<"-">>
sDevNull   == <<"/", "d", "e", "v", "/", "n", "u", "l", "l">>
sEmpty     == << >>
sSrcA      == <<"a", ".", "c">>
sObjA      == <<"a", ".", "o">>
sDepA      == <<"-", "W", "p", ",", "-", "M", "M", "D", ",", "a", ".", "d">>

-----------------------------------------------------------------------------
(* COMMAND ANALYSIS                                                        *)

EmptyResult == [inputs |-> << >>, outputs |-> << >>]

kSkipNextArguments ==
  { <<"-", "i", "s", "y", "s", "t", "e", "m">>, <<"-", "I">>, <<"-", "L">>,
    <<"-", "m">>, <<"-", "s", "o", "n", "a", "m", "e">>, <<"-", "z">> }

kOutputOption == <<"-", "W", "p", ",", "-", "M", "M", "D", ",">>

\* The state of the loop of analyze_compiler_linker between two iterations;
\* returned is set by the "return {}" of a test compilation.
LoopStart ==
  [next_is_out |-> FALSE, skip_next |-> FALSE, returned |-> FALSE,
   result |-> EmptyResult]

\* a mutant of the loop body: the -Wp,-MMD, rule ends the iteration
compiler_linker_body_continue(s, argument) ==
  IF argument = sDashO THEN [s EXCEPT !.next_is_out = TRUE]
  ELSE IF s.next_is_out
    THEN [s EXCEPT !.result.outputs = Append(@, argument), !.next_is_out = FALSE]
  ELSE IF StartsWith(argument, kOutputOption)
    THEN [s EXCEPT !.result.outputs = Append(@, Substr(argument, Len(kOutputOption)))]
  ELSE IF s.skip_next THEN [s EXCEPT !.skip_next = FALSE]
  ELSE IF argument = sDevNull \/ argument = sDash
    THEN [s EXCEPT !.returned = TRUE, !.result = EmptyResult]
  ELSE IF FirstChar(argument) = "-"
    THEN [s EXCEPT !.skip_next = argument \in kSkipNextArguments]
  ELSE [s EXCEPT !.result.inputs = Append(@, argument)]

\* a mutant of the loop body: a test compilation ends the loop and the
\* result collected so far is returned
compiler_linker_body_keep(s, argument) ==
  IF argument = sDashO THEN [s EXCEPT !.next_is_out = TRUE]
  ELSE IF s.next_is_out
    THEN [s EXCEPT !.result.outputs = Append(@, argument), !.next_is_out = FALSE]
  ELSE
    LET s1 == IF StartsWith(argument, kOutputOption)
                THEN [s EXCEPT !.result.outputs =
                        Append(@, Substr(argument, Len(kOutputOption)))]
                ELSE s
    IN IF s1.skip_next THEN [s1 EXCEPT !.skip_next = FALSE]
       ELSE
         LET s2 == IF argument \in kSkipNextArguments
                     THEN [s1 EXCEPT !.skip_next = TRUE] ELSE s1
         IN IF argument = sDevNull \/ argument = sDash
              THEN [s2 EXCEPT !.returned = TRUE]
            ELSE IF FirstChar(argument) = "-" THEN s2
            ELSE [s2 EXCEPT !.result.inputs = Append(@, argument)]

\* a mutant of the loop body: a pending skip_next is served first
compiler_linker_body_skip_first(s, argument) ==
  IF s.skip_next /\ ~s.next_is_out THEN [s EXCEPT !.skip_next = FALSE]
  ELSE IF argument = sDashO THEN [s EXCEPT !.next_is_out = TRUE]
  ELSE IF s.next_is_out
    THEN [s EXCEPT !.result.outputs = Append(@, argument), !.next_is_out = FALSE]
  ELSE
    LET s1 == IF StartsWith(argument, kOutputOption)
                THEN [s EXCEPT !.result.outputs =
                        Append(@, Substr(argument, Len(kOutputOption)))]
                ELSE s
        s2 == IF argument \in kSkipNextArguments
                THEN [s1 EXCEPT !.skip_next = TRUE] ELSE s1
    IN IF argument = sDevNull \/ argument = sDash
         THEN [s2 EXCEPT !.returned = TRUE, !.result = EmptyResult]
       ELSE IF FirstChar(argument) = "-" THEN s2
       ELSE [s2 EXCEPT !.result.inputs = Append(@, argument)]

\* One iteration of the loop of analyze_compiler_linker on one argument.
compiler_linker_body(s, argument) ==
  IF argument = sDashO
    THEN [s EXCEPT !.next_is_out = TRUE]                          \* continue
  ELSE IF s.next_is_out
    THEN [s EXCEPT !.result.outputs = Append(@, argument),
                   !.next_is_out = FALSE]                         \* continue
  ELSE
    LET s1 == IF StartsWith(argument, kOutputOption)
                THEN [s EXCEPT !.result.outputs =
                        Append(@, Substr(argument, Len(kOutputOption)))]
                ELSE s
    IN IF s1.skip_next
         THEN [s1 EXCEPT !.skip_next = FALSE]                     \* continue
       ELSE
         LET s2 == IF argument \in kSkipNextArguments
                     THEN [s1 EXCEPT !.skip_next = TRUE] ELSE s1
         IN IF argument = sDevNull \/ argument = sDash
              THEN [s2 EXCEPT !.returned = TRUE, !.result = EmptyResult]
            ELSE IF FirstChar(argument) = "-"
              THEN s2                                             \* continue
            ELSE [s2 EXCEPT !.result.inputs = Append(@, argument)]

\* The loop from arguments.cbegin() + 1 to arguments.cend().
RECURSIVE compiler_linker_loop(_, _, _)
compiler_linker_loop(arguments, it, s) ==
  IF s.returned \/ it > Len(arguments) THEN s.result
  ELSE compiler_linker_loop(arguments, it + 1,
                            compiler_linker_body(s, arguments[it]))

analyze_compiler_linker(arguments) ==
  compiler_linker_loop(arguments, 2, LoopStart)

\* an archiver analyser whose inputs begin at arguments[2], the output
analyze_archiver_from_output(arguments) ==
  IF Len(arguments) < 3 THEN EmptyResult
  ELSE [outputs |-> <<arguments[3]>>,
        inputs  |-> SubSeq(arguments, 3, Len(arguments))]

analyze_archiver(arguments) ==
  IF Len(arguments) < 3 THEN EmptyResult
  ELSE [outputs |-> <<arguments[3]>>,
        inputs  |-> SubSeq(arguments, 4, Len(arguments))]

\* a first rule of the table that matches cc as well
MatchesCompilerLinkerOrCc(str) ==
  Basename(str) \in
    { <<"c", "l", "a", "n", "g">>, <<"c", "l", "a", "n", "g", "+", "+">>,
      <<"g", "c", "c">>, <<"g", "+", "+">>, <<"l", "d">>,
      <<"l", "d", ".", "l", "l", "d">>,
      <<"l", "l", "v", "m", "-", "s", "t", "r", "i", "p">>, <<"c", "c">> }

\* std::regex_match against ^(.*/)?(clang|clang\+\+|gcc|g\+\+|ld(\.lld)?|llvm-strip)$
\* (the texts of the model hold no line terminator, which '.' would not match)
MatchesCompilerLinker(str) ==
  Basename(str) \in
    { <<"c", "l", "a", "n", "g">>, <<"c", "l", "a", "n", "g", "+", "+">>,
      <<"g", "c", "c">>, <<"g", "+", "+">>, <<"l", "d">>,
      <<"l", "d", ".", "l", "l", "d">>,
      <<"l", "l", "v", "m", "-", "s", "t", "r", "i", "p">> }

\* std::regex_match against ^(.*/)?(llvm-)?ar$
MatchesArchiver(str) ==
  Basename(str) \in { <<"a", "r">>, <<"l", "l", "v", "m", "-", "a", "r">> }

\* The analyzers table searched in order by analyze_command; analyze_command
\* reads arguments[0], so it is applied to a non-empty arguments only.
analyze_command(arguments) ==
  IF MatchesCompilerLinker(arguments[1]) THEN analyze_compiler_linker(arguments)
  ELSE IF MatchesArchiver(arguments[1]) THEN analyze_archiver(arguments)
  ELSE EmptyResult

-----------------------------------------------------------------------------
(* std::filesystem paths.  The file system of the model has no symbolic    *)
(* links, so weakly_canonical is the lexical normal form of a path.        *)

sDot    == <<".">>
sDotDot == <<".", ".">>

\* the elements of a path text between its '/' separators
RECURSIVE Split(_)
Split(str) ==
  IF str = << >> THEN << >>
  ELSE LET p == Find(str, <<"/">>)
       IN IF p = 0 THEN <<str>>
          ELSE IF p = 1 THEN Split(Substr(str, 1))
          ELSE <<SubSeq(str, 1, p - 1)>> \o Split(Substr(str, p))

\* the elements with "." removed and ".." applied
RECURSIVE Normalize(_, _)
Normalize(done, rest) ==
  IF rest = << >> THEN done
  ELSE IF rest[1] = sDot THEN Normalize(done, Tail(rest))
  ELSE IF rest[1] = sDotDot
    THEN Normalize(IF done = << >> THEN done ELSE SubSeq(done, 1, Len(done) - 1),
                   Tail(rest))
  ELSE Normalize(Append(done, rest[1]), Tail(rest))

\* the elements of the absolute normal form of a path text seen from current_path
Canonical(current_path, str) ==
  IF FirstChar(str) = "/" THEN Normalize(<< >>, Split(str))
  ELSE Normalize(<< >>, Split(current_path) \o Split(str))

RECURSIVE Join(_)
Join(elems) ==
  IF elems = << >> THEN << >>
  ELSE IF Len(elems) = 1 THEN elems[1]
  ELSE elems[1] \o <<"/">> \o Join(Tail(elems))

RECURSIVE CommonPrefixLen(_, _)
CommonPrefixLen(a, b) ==
  IF a = << >> \/ b = << >> \/ a[1] # b[1] THEN 0
  ELSE 1 + CommonPrefixLen(Tail(a), Tail(b))

\* path::lexically_relative on normal forms
LexicallyRelative(p, base) ==
  LET k    == CommonPrefixLen(p, base)
      ups  == [i \in 1..(Len(base) - k) |-> sDotDot]
      rest == SubSeq(p, k + 1, Len(p))
  IN IF ups \o rest = << >> THEN sDot ELSE Join(ups \o rest)

\* fs::relative(p, base) = weakly_canonical(p).lexically_relative(weakly_canonical(base))
fs_relative(current_path, p, base) ==
  LexicallyRelative(Canonical(current_path, p), Canonical(current_path, base))

-----------------------------------------------------------------------------
(* The Command and its canonicaliser                                       *)

\* the names of the two variables, each a text of one token
kEnvCommandLog    == <<"INTERCEPTOR_command_log">>
kEnvRootDirectory == <<"INTERCEPTOR_root_directory">>

\* text with a '/' appended unless its last character is one
WithTrailingSlash(str) ==
  IF str[Len(str)] # "/" THEN str \o <<"/">> ELSE str

\* R: the root directory of the environment with its trailing '/'
RootDirectory(cmd) ==
  WithTrailingSlash(cmd.environment_variables[kEnvRootDirectory])

\* r: the path of R relative to the current working directory, "" for "./"
RelativeRoot(current_path, root_directory) ==
  LET rel == WithTrailingSlash(fs_relative(current_path, root_directory, current_path))
  IN IF rel = <<".", "/">> THEN << >> ELSE rel

\* a mutant of the replacement functor: an if in the place of the while
replace_all_once(str, root_directory, relative_root) ==
  LET pos == Find(str, root_directory)
  IN IF pos = 0 THEN str
     ELSE Replace(str, pos, Len(root_directory), relative_root)

\* The replacement functor of make_relative: while str.find(root_directory)
\* finds an occurrence, searching from the start, replace it.
RECURSIVE replace_all(_, _, _)
replace_all(str, root_directory, relative_root) ==
  LET pos == Find(str, root_directory)
  IN IF pos = 0 THEN str
     ELSE replace_all(Replace(str, pos, Len(root_directory), relative_root),
                      root_directory, relative_root)

\* whether make_relative rewrites: the root variable is set and the relative
\* root does not contain the root directory
Rewrites(cmd, current_path) ==
  /\ kEnvRootDirectory \in DOMAIN cmd.environment_variables
  /\ Find(RelativeRoot(current_path, RootDirectory(cmd)), RootDirectory(cmd)) = 0

\* a mutant of make_relative: current_directory is rewritten before the
\* test of the relative root, not after it
make_relative_cwd_first(cmd, current_path) ==
  IF kEnvRootDirectory \notin DOMAIN cmd.environment_variables
    THEN cmd
  ELSE
    LET root_directory == RootDirectory(cmd)
        relative_root  == RelativeRoot(current_path, root_directory)
        moved == [cmd EXCEPT !.current_directory =
                    fs_relative(current_path, cmd.current_directory, root_directory)]
    IN IF Find(relative_root, root_directory) # 0 THEN moved
       ELSE [moved EXCEPT
               !.program = replace_all(@, root_directory, relative_root),
               !.arguments =
                  [i \in DOMAIN @ |->
                     replace_all(@[i], root_directory, relative_root)]]

make_relative(cmd, current_path) ==
  IF kEnvRootDirectory \notin DOMAIN cmd.environment_variables
    THEN cmd
  ELSE
    LET root_directory == RootDirectory(cmd)
        relative_root  == RelativeRoot(current_path, root_directory)
    IN IF Find(relative_root, root_directory) # 0 THEN cmd
       ELSE [cmd EXCEPT
               !.current_directory =
                  fs_relative(current_path, cmd.current_directory, root_directory),
               !.program = replace_all(@, root_directory, relative_root),
               !.arguments =
                  [i \in DOMAIN @ |->
                     replace_all(@[i], root_directory, relative_root)]]

-----------------------------------------------------------------------------
(* The exec trampoline: process_command and the functions it calls         *)

\* the null pointer that ends an argv or envp array
NullPtr == <<"nullptr">>

\* the entries of an array before its first null pointer
RECURSIVE UpToNull(_)
UpToNull(array) ==
  IF array = << >> \/ Head(array) = NullPtr THEN << >>
  ELSE <<Head(array)>> \o UpToNull(Tail(array))

\* the loop over envp of instantiate_command: split at the first '=', skip
\* an entry without one, a later entry of the same name overrides
RECURSIVE environment_of(_, _)
environment_of(entries, map) ==
  IF entries = << >> THEN map
  ELSE LET s   == Head(entries)
           pos == Find(s, <<"=">>)
           key == SubSeq(s, 1, pos - 1)
       IN environment_of(Tail(entries),
            IF pos = 0 THEN map
            ELSE [k \in DOMAIN map \cup {key} |->
                    IF k = key THEN Substr(s, pos) ELSE map[k]])

\* an instantiate_command that takes the variables from environ, the
\* environment of the calling process, as getenv would
instantiate_command_environ(program, argvArray, envpArray, current_path) ==
  [program               |-> program,
   current_directory     |-> current_path,
   arguments             |-> UpToNull(argvArray),
   environment_variables |-> environment_of(prEnviron, << >>),
   inputs                |-> << >>,
   outputs               |-> << >>]

\* instantiate_command: the Command of the call, its environment_variables
\* taken from the envp handed to execve
instantiate_command(program, argvArray, envpArray, current_path) ==
  [program               |-> program,
   current_directory     |-> current_path,
   arguments             |-> UpToNull(argvArray),
   environment_variables |-> environment_of(UpToNull(envpArray), << >>),
   inputs                |-> << >>,
   outputs               |-> << >>]

\* a mutant of is_regular_file: fs::exists, true of a directory too
fs_exists(fs, current_path, path) ==
  LET p == Canonical(current_path, path)
  IN \E f \in fs : Len(f) >= Len(p) /\ SubSeq(f, 1, Len(p)) = p

\* fs::is_regular_file(path) in a process whose working directory is current_path
is_regular_file(fs, current_path, path) ==
  Canonical(current_path, path) \in fs

\* a sanitizing that takes the first two characters from every path
strip_two_characters(path) == Substr(path, 2)

\* the sanitizing of analyze: a leading "./" is removed
strip_dot_slash(path) ==
  IF StartsWith(path, <<".", "/">>) THEN Substr(path, 2) ELSE path

sanitized(paths) == [i \in DOMAIN paths |-> strip_dot_slash(paths[i])]

\* a mutant of the check of analyze: the loop runs over the outputs
missing_output(fs, current_path, inputs, outputs) ==
  \E i \in DOMAIN outputs : ~is_regular_file(fs, current_path, outputs[i])

\* the check of analyze: some input is not a regular file
missing_input(fs, current_path, inputs, outputs) ==
  \E i \in DOMAIN inputs : ~is_regular_file(fs, current_path, inputs[i])

\* a log() that records the Command as it is, environment included
message_of_command(cmd) == cmd

\* the Message log() serialises: the command, its environment cleared
message_of(cmd) == [cmd EXCEPT !.environment_variables = << >>]

\* the array execute() hands to old_execve when the null pointer it stored
\* beyond the size of c_arguments is still behind the pushed arguments
c_arguments(cmd) == cmd.arguments \o <<NullPtr>>

-----------------------------------------------------------------------------
(* SpecRelative: make_relative applied to every bounded Command            *)

sRoot      == <<"/", "r">>
sRootSlash == <<"/", "r", "/">>
sSub       == <<"/", "r", "/", "s">>
sOutside   == <<"/", "q">>
sTop       == <<"/">>
sRootGcc   == <<"/", "r", "/", "g", "c", "c">>
sOutGcc    == <<"/", "q", "/", "g", "c", "c">>
sRootSrc   == <<"/", "r", "/", "a", ".", "c">>
sRootInc   == <<"-", "I", "/", "r", "/", "i">>
sNested    == <<"/", "r", "/", "r", "/", "a">>
sSlashNest == <<"/", "/", "r", "/", "r", "/", "a">>

RelCwdPool  == {sRoot, sSub, sOutside, sTop}
RelEnvPool  ==
  { << >>,
    [n \in {kEnvRootDirectory} |-> sRoot],
    [n \in {kEnvRootDirectory} |-> sRootSlash] }
RelProgPool == {sRootGcc, sOutGcc}
RelArgPool  == {sRootSrc, sRootInc, sNested, sSlashNest, sSrcA, sRoot}

sDotSrc    == <<".", "/", "a", ".", "c">>
sLogPath   == <<"/", "q", "/", "l">>

eRoot == kEnvRootDirectory \o <<"=">> \o sRoot
eLog  == kEnvCommandLog \o <<"=">> \o sLogPath
eJunk == <<"J">>

\* file systems: normal forms of the regular files; /r/s is a directory
FilesNoSource ==
  { << <<"r">>, <<"g", "c", "c">> >>, << <<"r">>, <<"s">>, <<"a", ".", "o">> >> }
FilesAll == FilesNoSource \cup { << <<"r">>, <<"a", ".", "c">> >> }

ExecFsPool       == {FilesAll, FilesNoSource}
ExecFilenamePool == {sRootGcc, sSub, sGcc}
ExecCwdPool      == {sRoot, sSub, sOutside}
ExecArgv0Pool    == {sGcc, sCc, sAr}
ExecArgPool      == {sRootSrc, sDotSrc, sDepA, sDash, sDashO}
ExecEnvPool      ==
  { << >>, <<eRoot>>, <<eLog>>, <<eRoot, eLog>>, <<eJunk, eLog, eRoot>> }

\* environ of the process that calls execve: both variables are set
ProcessEnviron == <<eRoot, eLog>>

NoCommand == << >>

ExIdle ==
  /\ pc = "off"
  /\ filename = << >>
  /\ argv = << >>
  /\ envp = << >>
  /\ cwd = << >>
  /\ files = {}
  /\ command = NoCommand
  /\ logFile = << >>
  /\ calls = << >>
  /\ trace = << >>
  /\ exitStatus = -1
  /\ retval = 0

RlIdle ==
  /\ rlPc = "off"
  /\ rlCwd = << >>
  /\ rlInput = << >>
  /\ rlCommand = << >>

LgIdle ==
  /\ drPc = "off"
  /\ command_log_file = << >>
  /\ root_dir = << >>
  /\ log = << >>
  /\ drOut = << >>
  /\ drStatus = -1
  /\ drExit = -1
  /\ file = << >>
  /\ stream = << >>
  /\ shPc = << >>
  /\ shOut = << >>

CdIdle ==
  /\ cdPc = "off"
  /\ cdLog = << >>
  /\ cdOut = << >>

DsIdle ==
  /\ dsPc = "off"
  /\ dsEnviron = << >>
  /\ dsCwd = << >>
  /\ dsRootDir = << >>
  /\ dsChildCwd = << >>
  /\ dsCommand = << >>

DmIdle ==
  /\ dmPc = "off"
  /\ dmArgv = << >>
  /\ dmOptions = << >>
  /\ dmReadable = FALSE
  /\ dmCreatable = FALSE
  /\ dmWritten = FALSE
  /\ dmExit = -1

RpIdle ==
  /\ rpPc = "off"
  /\ rpCwd = << >>
  /\ rpRoot = << >>
  /\ rpRelative = << >>
  /\ rpStr = << >>
  /\ rpCount = 0

PrIdle == prEnviron = << >>

-----------------------------------------------------------------------------
(* SpecAnalyze: analyze_command applied to every bounded argument vector   *)

Argv0Pool == {sGcc, sClangPP, sLdLld, sAr, sLlvmAr, sCc, sTar}

AnalyzePool ==
  {sDashO, sDashI, sDashC, sDash, sDevNull, sEmpty, sSrcA, sObjA, sDepA}

AnIdle ==
  /\ anPc = "off"
  /\ anArguments = << >>
  /\ anResult = EmptyResult

AnalyzeInit ==
  /\ anPc = "input"
  /\ anArguments \in {<<a0>> \o rest :
                        a0 \in Argv0Pool,
                        rest \in SeqsUpTo(AnalyzePool, MaxAnalyzeArgs)}
  /\ anResult = EmptyResult
  /\ RlIdle
  /\ ExIdle
  /\ LgIdle
  /\ CdIdle
  /\ DsIdle
  /\ DmIdle
  /\ RpIdle
  /\ PrIdle

AnalyzeCommand ==
  /\ anPc = "input"
  /\ anResult' = analyze_command(anArguments)
  /\ anPc' = "done"
  /\ UNCHANGED <<anArguments, notAn>>

AnalyzeNext == AnalyzeCommand

SpecAnalyze == AnalyzeInit /\ [][AnalyzeNext]_vars

RelativeInit ==
  /\ rlPc = "input"
  /\ rlCwd \in RelCwdPool
  /\ \E env \in RelEnvPool, prog \in RelProgPool,
        args \in SeqsUpTo(RelArgPool, MaxRelArgs) :
       rlInput = [program |-> prog, current_directory |-> rlCwd,
                  arguments |-> args, environment_variables |-> env,
                  inputs |-> << >>, outputs |-> << >>]
  /\ rlCommand = rlInput
  /\ AnIdle
  /\ ExIdle
  /\ LgIdle
  /\ CdIdle
  /\ DsIdle
  /\ DmIdle
  /\ RpIdle
  /\ PrIdle

MakeRelative ==
  /\ rlPc = "input"
  /\ rlCommand' = make_relative(rlCommand, rlCwd)
  /\ rlPc' = "done"
  /\ UNCHANGED <<rlCwd, rlInput, notRl>>

RelativeNext == MakeRelative

SpecRelative == RelativeInit /\ [][RelativeNext]_vars

-----------------------------------------------------------------------------
(* Spec: one call of the intercepted execve                                *)

Init ==
  /\ pc = "execve"
  /\ filename \in ExecFilenamePool
  /\ argv \in {<<NullPtr>>} \cup
               {<<a0>> \o rest \o <<NullPtr>> :
                  a0 \in ExecArgv0Pool,
                  rest \in SeqsUpTo(ExecArgPool, MaxArgc - 1)}
  /\ envp \in {entries \o <<NullPtr>> : entries \in ExecEnvPool}
  /\ cwd \in ExecCwdPool
  /\ files \in ExecFsPool
  /\ command = NoCommand
  /\ logFile = << >>
  /\ calls = << >>
  /\ trace = << >>
  /\ exitStatus = -1
  /\ retval = 0
  /\ AnIdle
  /\ RlIdle
  /\ LgIdle
  /\ CdIdle
  /\ DsIdle
  /\ DmIdle
  /\ RpIdle
  /\ prEnviron = ProcessEnviron

\* process_command returns at once: filename is not a regular file
ProcessCommandReturn ==
  /\ pc = "execve"
  /\ ~is_regular_file(files, cwd, filename)
  /\ pc' = "old_execve"
  /\ UNCHANGED notEx
  /\ UNCHANGED <<filename, argv, envp, cwd, files, command, logFile, calls,
                 trace, exitStatus, retval>>

ProcessCommandInstantiate ==
  /\ pc = "execve"
  /\ is_regular_file(files, cwd, filename)
  /\ command' = instantiate_command(filename, argv, envp, cwd)
  /\ trace' = Append(trace, "instantiate_command")
  /\ pc' = "make_relative"
  /\ UNCHANGED notEx
  /\ UNCHANGED <<filename, argv, envp, cwd, files, logFile, calls,
                 exitStatus, retval>>

ProcessCommandMakeRelative ==
  /\ pc = "make_relative"
  /\ command' = make_relative(command, cwd)
  /\ trace' = Append(trace, "make_relative")
  /\ pc' = "analyze"
  /\ UNCHANGED notEx
  /\ UNCHANGED <<filename, argv, envp, cwd, files, logFile, calls,
                 exitStatus, retval>>

\* analyze(): analyze_command, the sanitizing, the check of the inputs.
\* analyze_command reads arguments()[0]; on an empty arguments that read is
\* undefined: the process faults, or the text read matches no analyzer.
ProcessCommandAnalyze ==
  /\ pc = "analyze"
  /\ trace' = Append(trace, "analyze")
  /\ \/ /\ command.arguments # << >>
        /\ LET result  == analyze_command(command.arguments)
               inputs  == sanitized(result.inputs)
               outputs == sanitized(result.outputs)
           IN IF missing_input(files, cwd, inputs, outputs)
                THEN /\ pc' = "exited"
                     /\ exitStatus' = 1
                     /\ UNCHANGED command
                ELSE /\ pc' = "log"
                     /\ command' = [command EXCEPT !.inputs = inputs,
                                                   !.outputs = outputs]
                     /\ UNCHANGED exitStatus
     \/ /\ command.arguments = << >>
        /\ pc' \in {"crashed", "log"}
        /\ UNCHANGED <<command, exitStatus>>
  /\ UNCHANGED notEx
  /\ UNCHANGED <<filename, argv, envp, cwd, files, logFile, calls, retval>>

\* log(): when the log variable is set, open its file for appending and,
\* when the file is open, append the Message
ProcessCommandLog ==
  /\ pc = "log"
  /\ trace' = Append(trace, "log")
  /\ IF kEnvCommandLog \in DOMAIN command.environment_variables
       THEN \E is_open \in BOOLEAN :
              logFile' = IF is_open THEN Append(logFile, message_of(command))
                         ELSE logFile
       ELSE UNCHANGED logFile
  /\ pc' = "execute"
  /\ UNCHANGED notEx
  /\ UNCHANGED <<filename, argv, envp, cwd, files, command, calls,
                 exitStatus, retval>>

\* execute(): c_arguments[size] = nullptr is written on a vector of size 0
\* (only reserved), which is undefined: either the slot is written and stays
\* behind the pushed arguments, or a checked operator[] aborts the process.
\* old_execve does not return when it succeeds; when it fails execute and
\* process_command return to execve.
ProcessCommandExecute ==
  /\ pc = "execute"
  /\ trace' = Append(trace, "execute")
  /\ \/ \E result \in {"replaced", "failed"} :
          /\ calls' = Append(calls, [filename |-> command.program,
                                     argv     |-> c_arguments(command),
                                     envp     |-> envp,
                                     result   |-> result])
          /\ pc' = IF result = "replaced" THEN "replaced" ELSE "old_execve"
     \/ /\ pc' = "aborted"
        /\ UNCHANGED calls
  /\ UNCHANGED notEx
  /\ UNCHANGED <<filename, argv, envp, cwd, files, command, logFile,
                 exitStatus, retval>>

\* execve: return old_execve(filename, argv, envp)
ExecveOldExecve ==
  /\ pc = "old_execve"
  /\ \E result \in {"replaced", "failed"} :
       /\ calls' = Append(calls, [filename |-> filename, argv |-> argv,
                                  envp |-> envp, result |-> result])
       /\ pc' = IF result = "replaced" THEN "replaced" ELSE "returned"
       /\ retval' = IF result = "replaced" THEN retval ELSE -1
  /\ UNCHANGED notEx
  /\ UNCHANGED <<filename, argv, envp, cwd, files, command, logFile, trace,
                 exitStatus>>

Next ==
  \/ ProcessCommandReturn
  \/ ProcessCommandInstantiate
  \/ ProcessCommandMakeRelative
  \/ ProcessCommandAnalyze
  \/ ProcessCommandLog
  \/ ProcessCommandExecute
  \/ ExecveOldExecve

Spec == Init /\ [][Next]_vars

-----------------------------------------------------------------------------
(* Claims about one call of the intercepted execve                         *)

InTrace(step) == \E i \in DOMAIN trace : trace[i] = step

\* the file system's answer for a path text, seen from the process
RegularFile(path) == Canonical(cwd, path) \in files

\* the Command as built from the call, and as canonicalised
Instantiated  == instantiate_command(filename, argv, envp, cwd)
Canonicalised == make_relative(Instantiated, cwd)

\* C1: when execve is called with a filename that is not a regular file, no
\* log record is appended, the process is not terminated, and old_execve is
\* invoked exactly once, with the unmodified (filename, argv, envp), its
\* result being what execve returns to the caller.
C1_Transparency ==
  ~RegularFile(filename) =>
    /\ logFile = << >>
    /\ trace = << >>
    /\ exitStatus = -1
    /\ pc \in {"execve", "old_execve", "replaced", "returned"}
    /\ pc \in {"execve", "old_execve"} => calls = << >>
    /\ pc \in {"replaced", "returned"} =>
         /\ Len(calls) = 1
         /\ calls[1].filename = filename
         /\ calls[1].argv = argv
         /\ calls[1].envp = envp
         /\ calls[1].result = IF pc = "replaced" THEN "replaced" ELSE "failed"
         /\ retval = IF pc = "replaced" THEN 0 ELSE -1

\* a directory as filename, with the log variable set: the one call of
\* old_execve failed and execve returned its result
C1_Witness ==
  /\ pc = "returned"
  /\ filename = sSub
  /\ ~RegularFile(filename)
  /\ envp = <<eRoot, eLog, NullPtr>>
  /\ Len(argv) = 3
  /\ Len(calls) = 1

\* C2: for every call whose filename is a regular file and whose analysis
\* succeeds, the steps happen in the order build Command, canonicalise,
\* analyse, append log record, invoke old_execve, and old_execve receives the
\* canonicalised program, the canonicalised arguments in their order followed
\* by a null pointer, and the caller's envp.
C2_OrderAndArguments ==
  (InTrace("analyze") /\ pc \notin {"exited", "crashed", "log", "execute"}) =>
    /\ SubSeq(trace, 1, 5) = <<"instantiate_command", "make_relative",
                               "analyze", "log", "execute">>
    /\ Len(calls) >= 1
    /\ calls[1].filename = Canonicalised.program
    /\ calls[1].argv = Canonicalised.arguments \o <<NullPtr>>
    /\ calls[1].envp = envp

\* the inputs analyze() checks: those of the analyser, sanitized
AnalysedInputs == sanitized(analyze_command(Canonicalised.arguments).inputs)

\* C3: if an analysed input of an accepted command is not a regular file,
\* the process exits with a nonzero status, no record is appended and
\* old_execve is not invoked; so every record of the log has only inputs
\* that are regular files.
C3_AnalyserClosure ==
  /\ ( /\ InTrace("analyze")
       /\ Canonicalised.arguments # << >>
       /\ \E i \in DOMAIN AnalysedInputs : ~RegularFile(AnalysedInputs[i]) )
     => /\ pc = "exited"
        /\ exitStatus > 0
        /\ logFile = << >>
        /\ calls = << >>
  /\ \A k \in DOMAIN logFile : \A i \in DOMAIN logFile[k].inputs :
       RegularFile(logFile[k].inputs[i])

\* a compile of a source that does not exist, logging enabled: exit(1)
C3_Witness ==
  /\ pc = "exited"
  /\ exitStatus = 1
  /\ kEnvCommandLog \in DOMAIN command.environment_variables
  /\ command.arguments = <<sGcc, sDotSrc>>
  /\ ~RegularFile(<<"a", ".", "c">>)
  /\ logFile = << >>

\* C7: if the root variable is unset, or the relative root r contains R, the
\* canonicaliser leaves current_directory, program and every argument as
\* instantiate_command set them, and the command goes on through the
\* pipeline as any other: analyze() is called on it and, unless analyze()
\* ends the process, log() (which appends its record when the log variable
\* is set and the file opens) and execute().
C7_DegenerateUnchanged ==
  (InTrace("make_relative") /\ ~Rewrites(Instantiated, cwd)) =>
    /\ command.current_directory = cwd
    /\ command.program = filename
    /\ command.arguments = UpToNull(argv)
    /\ pc # "analyze" => InTrace("analyze")
    /\ pc \notin {"analyze", "exited", "crashed", "log"} => InTrace("log")
    /\ pc \notin {"analyze", "exited", "crashed", "log", "execute"}
         => InTrace("execute")
    /\ \A k \in DOMAIN logFile :
         /\ logFile[k].program = filename
         /\ logFile[k].arguments = UpToNull(argv)
         /\ logFile[k].current_directory = cwd
    /\ \A k \in DOMAIN calls :
         calls[k].filename = filename /\ calls[k].argv = argv

\* the working directory outside the root: the argument keeps its root
\* prefix, the record is appended and old_execve replaces the process
C7_Witness ==
  /\ pc = "replaced"
  /\ command # NoCommand
  /\ cwd = sOutside
  /\ kEnvRootDirectory \in DOMAIN command.environment_variables
  /\ ~Rewrites(Instantiated, cwd)
  /\ command.arguments = <<sGcc, sRootSrc>>
  /\ Len(logFile) = 1
  /\ logFile[1].inputs = <<sRootSrc>>
  /\ Len(calls) = 1

-----------------------------------------------------------------------------
(* C4: the reference scan of the compiler/linker analyser                  *)

\* The rules of the scan in the order the specification lists them, on the
\* flags next_is_out and skip_next; stop is set when the scan aborts.
RefRule(st, a) ==
  CASE a = sDashO -> [st EXCEPT !.next_is_out = TRUE]
    [] a # sDashO /\ st.next_is_out ->
         [st EXCEPT !.outs = @ \o <<a>>, !.next_is_out = FALSE]
    [] OTHER ->
         LET dep  == IF StartsWith(a, kOutputOption)
                       THEN <<SubSeq(a, Len(kOutputOption) + 1, Len(a))>>
                       ELSE << >>
             outs == st.outs \o dep
         IN CASE st.skip_next -> [st EXCEPT !.outs = outs, !.skip_next = FALSE]
              [] ~st.skip_next /\ a \in {sDevNull, sDash} ->
                   [st EXCEPT !.outs = << >>, !.ins = << >>, !.stop = TRUE]
              [] OTHER ->
                   [st EXCEPT !.outs = outs,
                              !.skip_next = a \in kSkipNextArguments,
                              !.ins = IF Len(a) > 0 /\ a[1] = "-"
                                        THEN @ ELSE @ \o <<a>>]

RECURSIVE RefScanFrom(_, _, _)
RefScanFrom(arguments, i, st) ==
  IF st.stop \/ i > Len(arguments) THEN st
  ELSE RefScanFrom(arguments, i + 1, RefRule(st, arguments[i]))

RefScan(arguments) ==
  LET st == RefScanFrom(arguments, 2,
              [next_is_out |-> FALSE, skip_next |-> FALSE, stop |-> FALSE,
               ins |-> << >>, outs |-> << >>])
  IN [inputs |-> st.ins, outputs |-> st.outs]

\* C4: for every argument vector whose argv0 selects the compiler/linker
\* analyser, the (inputs, outputs) the analyser returns are those of the
\* reference scan from index 1 with the flags next_is_out and skip_next.
C4_ReferenceScan ==
  (anPc = "done" /\ MatchesCompilerLinker(anArguments[1]))
    => anResult = RefScan(anArguments)

\* a -Wp,-MMD, argument met while skip_next is pending: its suffix is an
\* output, the argument itself is discarded, and the next argument is an input
C4_Witness ==
  /\ anPc = "done"
  /\ anArguments = <<sGcc, sDashI, sDepA, sSrcA>>
  /\ anResult = [inputs |-> <<sSrcA>>, outputs |-> << <<"a", ".", "d">> >>]

-----------------------------------------------------------------------------
(* C5: one left-to-right pass over the text                                *)

\* Replace each non-overlapping occurrence of R by r in one pass from the
\* left; the text a replacement produced is not scanned again.
RECURSIVE SinglePass(_, _, _)
SinglePass(str, R, r) ==
  IF str = << >> THEN << >>
  ELSE IF StartsWith(str, R) THEN r \o SinglePass(Substr(str, Len(R)), R, r)
  ELSE <<str[1]>> \o SinglePass(Tail(str), R, r)

\* C5: when the canonicaliser rewrites, program and every argument equal the
\* result of the single left-to-right pass replacing R by r.
C5_SinglePass ==
  (rlPc = "done" /\ Rewrites(rlInput, rlCwd)) =>
    LET R == RootDirectory(rlInput)
        r == RelativeRoot(rlCwd, R)
    IN /\ rlCommand.program = SinglePass(rlInput.program, R, r)
       /\ Len(rlCommand.arguments) = Len(rlInput.arguments)
       /\ \A i \in DOMAIN rlInput.arguments :
            rlCommand.arguments[i] = SinglePass(rlInput.arguments[i], R, r)

-----------------------------------------------------------------------------
(* C6: no root prefix is left after a rewrite                              *)

ContainsRoot(cmd, R) ==
  \/ Find(cmd.program, R) # 0
  \/ \E i \in DOMAIN cmd.arguments : Find(cmd.arguments[i], R) # 0

\* C6 as stated: for every command whose environment sets the root variable,
\* whatever the current working directory, neither program nor any argument
\* contains R after the canonicaliser has run.
C6_Original ==
  (rlPc = "done" /\ kEnvRootDirectory \in DOMAIN rlInput.environment_variables)
    => ~ContainsRoot(rlCommand, RootDirectory(rlInput))

\* C6 amended: for every command whose environment sets the root variable and
\* whose relative root r does not contain R, neither program nor any argument
\* contains R after the canonicaliser has run.
C6_NoRootLeft ==
  (rlPc = "done" /\ Rewrites(rlInput, rlCwd))
    => ~ContainsRoot(rlCommand, RootDirectory(rlInput))

\* a rewrite below the root of an argument in which a replacement forms a
\* new occurrence of R
C6_Witness ==
  /\ rlPc = "done"
  /\ Rewrites(rlInput, rlCwd)
  /\ rlCwd = sSub
  /\ rlInput.arguments = <<sNested>>
  /\ rlCommand.arguments = << <<".", ".", ".", ".", "/", "a">> >>
  /\ ~ContainsRoot(rlCommand, RootDirectory(rlInput))

-----------------------------------------------------------------------------
(* The bytes of the command log.  A byte sequence is a sequence of units;  *)
(* a unit is the ix-th of the `of` slices of the wire form of one message, *)
(* one slice per field that is set and one for a length prefix.            *)

\* a log::Message holding a Command, and a log::Log
MessageOf(cmd) == [kind |-> "Message", root_dir |-> << >>, commands |-> <<cmd>>]
LogOf(root, cmds) == [kind |-> "Log", root_dir |-> root, commands |-> cmds]

has_command(message) == message.kind = "Message" /\ Len(message.commands) = 1

\* slices of a serialised string field: an empty string is not written
StringSize(str) == IF str = << >> THEN 0 ELSE 1

\* slices of a serialised Command whose environment has been cleared
CommandSize(cmd) ==
  StringSize(cmd.program) + StringSize(cmd.current_directory)
    + Len(cmd.arguments) + Len(cmd.inputs) + Len(cmd.outputs)

RECURSIVE CommandsSize(_)
CommandsSize(cmds) ==
  IF cmds = << >> THEN 0
  ELSE CommandSize(Head(cmds)) + CommandsSize(Tail(cmds))

ByteSizeLong(msg) == StringSize(msg.root_dir) + CommandsSize(msg.commands)

\* Message::SerializeToOstream: the wire form without a length prefix
SerializeToOstream(msg) ==
  [j \in 1..ByteSizeLong(msg) |->
     [ix |-> j, of |-> ByteSizeLong(msg), delimited |-> FALSE, msg |-> msg]]

\* SerializeDelimitedToOstream: the length as a varint, then the wire form
SerializeDelimitedToOstream(msg) ==
  [j \in 1..(1 + ByteSizeLong(msg)) |->
     [ix |-> j, of |-> 1 + ByteSizeLong(msg), delimited |-> TRUE, msg |-> msg]]

\* ParseDelimitedFromZeroCopyStream succeeds at pos: a length prefix is
\* there and the bytes it announces follow and are the wire form of a Message
ParseDelimitedFromZeroCopyStream(bytes, pos) ==
  /\ pos <= Len(bytes)
  /\ bytes[pos].ix = 1
  /\ bytes[pos].delimited
  /\ bytes[pos].msg.kind = "Message"
  /\ pos + bytes[pos].of - 1 <= Len(bytes)
  /\ \A j \in 1..bytes[pos].of :
       bytes[pos + j - 1] = [bytes[pos] EXCEPT !.ix = j]

\* a reading loop that goes on behind a record it could not parse
RECURSIVE read_commands_resync(_, _, _)
read_commands_resync(bytes, pos, commands) ==
  IF pos > Len(bytes) THEN commands
  ELSE IF ~ParseDelimitedFromZeroCopyStream(bytes, pos)
  THEN read_commands_resync(bytes, pos + 1, commands)
  ELSE LET message == bytes[pos].msg
       IN read_commands_resync(bytes, pos + bytes[pos].of,
            IF has_command(message)
            THEN Append(commands, message.commands[1])
            ELSE commands)

\* the reading loop of ~CommandLog: it ends at the first failing parse
RECURSIVE read_commands(_, _, _)
read_commands(bytes, pos, commands) ==
  IF ~ParseDelimitedFromZeroCopyStream(bytes, pos) THEN commands
  ELSE LET message == bytes[pos].msg
       IN read_commands(bytes, pos + bytes[pos].of,
            IF has_command(message)
            THEN Append(commands, message.commands[1])
            ELSE commands)

\* what one write() of a stream holding bytes carries, and what is left
FirstBlock(bytes) ==
  SubSeq(bytes, 1, IF Len(bytes) < BlockUnits THEN Len(bytes) ELSE BlockUnits)

AfterFirstBlock(bytes) == SubSeq(bytes, Len(FirstBlock(bytes)) + 1, Len(bytes))

\* exit codes of the command line the driver runs
ExitCodes == {0, 1, 255}

\* the wait status std::system returns for a command line that exited with
\* code: the code is held by bits 8 to 15
W_EXITCODE(code) == code * 256

\* WEXITSTATUS of a wait status
WEXITSTATUS(status) == (status \div 256) % 256

\* the exit status a parent is handed for exit(status) or a return from main
exit_status(status) == status % 256

\* setup_root_dir: ROOT_DIR of the driver's environment, else its directory
setup_root_dir(ROOT_DIR, current_path) ==
  IF ROOT_DIR # NullPtr THEN ROOT_DIR ELSE current_path

-----------------------------------------------------------------------------
(* SpecLog: the driver runs a command whose processes append to the log    *)

Writers == 1..MaxWriters

\* the Command a process logs for an argument vector
LoggedCommand(arguments) ==
  LET r == analyze_command(arguments)
  IN message_of([program               |-> arguments[1],
                 current_directory     |-> sDot,
                 arguments             |-> arguments,
                 environment_variables |-> << >>,
                 inputs                |-> r.inputs,
                 outputs               |-> r.outputs])

LogCommandPool == {LoggedCommand(<<sGcc>>), LoggedCommand(<<sGcc, sSrcA>>)}

\* the log file a former run of the driver left
StaleFile == SerializeToOstream(LogOf(sRoot, <<LoggedCommand(<<sGcc>>)>>))

LogInit ==
  /\ drPc = "main"
  /\ command_log_file \in {<< >>, sLogPath}
  /\ root_dir = << >>
  /\ log = << >>
  /\ drOut = << >>
  /\ drStatus = -1
  /\ drExit = -1
  /\ file \in {<< >>, StaleFile}
  /\ stream = << >>
  /\ shPc = [p \in Writers |-> "idle"]
  /\ shOut = [p \in Writers |-> << >>]
  /\ AnIdle
  /\ RlIdle
  /\ ExIdle
  /\ CdIdle
  /\ DsIdle
  /\ DmIdle
  /\ RpIdle
  /\ PrIdle

\* main() up to the constructor of CommandLog, which truncates the file
DriverMain ==
  /\ drPc = "main"
  /\ \E ROOT_DIR \in {NullPtr, sRoot}, opened \in BOOLEAN :
       /\ root_dir' = setup_root_dir(ROOT_DIR, sSub)
       /\ IF command_log_file = << >>
          THEN /\ drPc' = "system"
               /\ UNCHANGED <<file, drExit>>
          ELSE IF opened
          THEN /\ drPc' = "system"
               /\ file' = << >>
               /\ UNCHANGED drExit
          ELSE /\ drPc' = "exited"
               /\ drExit' = EX_CANTCREAT
               /\ UNCHANGED file
  /\ UNCHANGED <<command_log_file, log, drOut, drStatus, stream, shPc, shOut>>
  /\ UNCHANGED notLg

\* log() of a process of the running command: the file is opened for
\* appending and the delimited Message is put into the stream
ShimLogOpen(p) ==
  /\ drPc = "system"
  /\ command_log_file # << >>
  /\ shPc[p] = "idle"
  /\ \E cmd \in LogCommandPool, is_open \in BOOLEAN :
       IF is_open
       THEN /\ shOut' = [shOut EXCEPT
                           ![p] = SerializeDelimitedToOstream(MessageOf(cmd))]
            /\ shPc' = [shPc EXCEPT ![p] = "writing"]
       ELSE /\ shPc' = [shPc EXCEPT ![p] = "done"]
            /\ UNCHANGED shOut
  /\ UNCHANGED <<drPc, command_log_file, root_dir, log, drOut, drStatus,
                 drExit, file, stream>>
  /\ UNCHANGED notLg

\* write() on a file that was opened without ofstream::app: the file was
\* truncated by open and holds what this stream wrote
write_out(content, block) == block

\* write() on the file log() opened with ofstream::app: each block goes to
\* the end of the file
write_app(content, block) == content \o block

\* one write() of the stream of log(): a block is appended to the file
ShimLogWrite(p) ==
  /\ shPc[p] = "writing"
  /\ file' = write_app(file, FirstBlock(shOut[p]))
  /\ shOut' = [shOut EXCEPT ![p] = AfterFirstBlock(shOut[p])]
  /\ shPc' = [shPc EXCEPT
                ![p] = IF AfterFirstBlock(shOut[p]) = << >>
                       THEN "done" ELSE "writing"]
  /\ UNCHANGED <<drPc, command_log_file, root_dir, log, drOut, drStatus,
                 drExit, stream>>
  /\ UNCHANGED notLg

\* std::system returns when the processes of the command have ended
DriverSystemReturns ==
  /\ drPc = "system"
  /\ \A p \in Writers : shPc[p] # "writing"
  /\ \E code \in ExitCodes : drStatus' = W_EXITCODE(code)
  /\ drPc' = IF command_log_file # << >> THEN "read" ELSE "returned"
  /\ UNCHANGED <<command_log_file, root_dir, log, drOut, drExit, file, stream,
                 shPc, shOut>>
  /\ UNCHANGED notLg

\* ~CommandLog: the delimited Messages are read and combined into a Log
DriverCompactRead ==
  /\ drPc = "read"
  /\ stream' = file
  /\ log' = LogOf(root_dir, read_commands(file, 1, << >>))
  /\ drPc' = "open"
  /\ UNCHANGED <<command_log_file, root_dir, drOut, drStatus, drExit, file,
                 shPc, shOut>>
  /\ UNCHANGED notLg

\* ~CommandLog: the ofstream is opened, which truncates the file, and the
\* Log is serialised into it
DriverCompactOpen ==
  /\ drPc = "open"
  /\ file' = << >>
  /\ drOut' = SerializeToOstream(log)
  /\ drPc' = IF SerializeToOstream(log) = << >> THEN "returned" ELSE "write"
  /\ UNCHANGED <<command_log_file, root_dir, log, drStatus, drExit, stream,
                 shPc, shOut>>
  /\ UNCHANGED notLg

\* ~CommandLog: one write() of the ofstream; main returns behind the last
DriverCompactWrite ==
  /\ drPc = "write"
  /\ file' = file \o FirstBlock(drOut)
  /\ drOut' = AfterFirstBlock(drOut)
  /\ drPc' = IF AfterFirstBlock(drOut) = << >> THEN "returned" ELSE "write"
  /\ UNCHANGED <<command_log_file, root_dir, log, drStatus, drExit, stream,
                 shPc, shOut>>
  /\ UNCHANGED notLg

\* main returns what std::system returned: the process ends through exit,
\* and its parent is handed the low eight bits
DriverExit ==
  /\ drPc = "returned"
  /\ drExit' = exit_status(drStatus)
  /\ drPc' = "exited"
  /\ UNCHANGED <<command_log_file, root_dir, log, drOut, drStatus, file,
                 stream, shPc, shOut>>
  /\ UNCHANGED notLg

LogNext ==
  \/ DriverMain
  \/ \E p \in Writers : ShimLogOpen(p)
  \/ \E p \in Writers : ShimLogWrite(p)
  \/ DriverSystemReturns
  \/ DriverCompactRead
  \/ DriverCompactOpen
  \/ DriverCompactWrite
  \/ DriverExit

SpecLog == LogInit /\ [][LogNext]_vars

-----------------------------------------------------------------------------
(* Claims about the command log                                            *)

\* bytes is a concatenation of whole records from pos on
RECURSIVE WholeRecordsFrom(_, _)
WholeRecordsFrom(bytes, pos) ==
  \/ pos = Len(bytes) + 1
  \/ /\ ParseDelimitedFromZeroCopyStream(bytes, pos)
     /\ WholeRecordsFrom(bytes, pos + bytes[pos].of)

\* C8: each record is emitted by one write, so that whenever no process is
\* in the middle of log() the file the driver truncated is a concatenation
\* of whole records, none split by the bytes of another.
C8_WholeRecords ==
  (/\ drPc = "system"
   /\ command_log_file # << >>
   /\ \A p \in Writers : shPc[p] # "writing")
  => WholeRecordsFrom(file, 1)

\* the records of a list of Commands, one after the other
RECURSIVE Framed(_)
Framed(cmds) ==
  IF cmds = << >> THEN << >>
  ELSE SerializeDelimitedToOstream(MessageOf(Head(cmds))) \o Framed(Tail(cmds))

\* cmds are the records bytes begins with, up to the first that fails
RecordsUpToFirstFailure(bytes, cmds) ==
  /\ Len(Framed(cmds)) <= Len(bytes)
  /\ SubSeq(bytes, 1, Len(Framed(cmds))) = Framed(cmds)
  /\ ~ParseDelimitedFromZeroCopyStream(bytes, Len(Framed(cmds)) + 1)

\* the Commands of the Log a file holds
CommandsOfFile(bytes) == IF bytes = << >> THEN << >> ELSE bytes[1].msg.commands

\* C9: given --command-log, the file is empty when the command starts, and
\* when main returns, whatever std::system returned, the file is one Log
\* with the driver's root directory and the Commands of the records of the
\* appended stream, in the order of the stream, up to the first record that
\* fails to parse (none for an empty stream).
C9_TruncateThenCompact ==
  /\ (/\ command_log_file # << >>
      /\ drPc = "system"
      /\ \A p \in Writers : shPc[p] = "idle")
     => file = << >>
  /\ (command_log_file # << >> /\ drPc = "returned")
     => /\ file = SerializeToOstream(LogOf(root_dir, CommandsOfFile(file)))
        /\ RecordsUpToFirstFailure(stream, CommandsOfFile(file))

\* a command that failed left a whole record, then records torn by each
\* other, and the compacted Log holds the whole one only
C9_Witness ==
  /\ command_log_file # << >>
  /\ drPc = "returned"
  /\ drStatus # 0
  /\ Len(CommandsOfFile(file)) = 1
  /\ Len(stream) > Len(Framed(CommandsOfFile(file)))
  /\ file = SerializeToOstream(LogOf(root_dir, CommandsOfFile(file)))

\* C10: from the moment ~CommandLog has read the stream, the file is either
\* the complete stream of records or the complete compacted Log.
C10_AtomicRewrite ==
  (command_log_file # << >> /\ drPc \in {"open", "write", "returned"})
  => (file = stream \/ file = SerializeToOstream(log))

-----------------------------------------------------------------------------
(* The dumper: compdb_to_file                                              *)

kCompileExtensions ==
  { <<".", "c">>, <<".", "c", "c">>, <<".", "c", "p", "p">>,
    <<".", "c", "x", "x">>, <<".", "S">> }

kCompilers ==
  { <<"c", "l", "a", "n", "g">>, <<"c", "l", "a", "n", "g", "+", "+">>,
    <<"g", "c", "c">>, <<"g", "+", "+">> }

\* position of the last occurrence of the character c in str, 0 for none
RFind(str, c) ==
  LET hits == {p \in 1..Len(str) : str[p] = c}
  IN IF hits = {} THEN 0 ELSE CHOOSE p \in hits : \A q \in hits : q <= p

\* fs::path::filename: the text behind the last '/'
path_filename(str) == SubSeq(str, RFind(str, "/") + 1, Len(str))

\* fs::path::extension: from the last '.' of the filename on; empty for
\* "." and "..", for a filename without '.', and for one whose only '.' leads
path_extension(str) ==
  LET f == path_filename(str)
      p == RFind(f, ".")
  IN IF f = sDot \/ f = sDotDot \/ p <= 1 THEN << >>
     ELSE SubSeq(f, p, Len(f))

\* fs::path operator/ : an absolute right side replaces the left side
path_append(lhs, rhs) ==
  IF StartsWith(rhs, <<"/">>) THEN rhs
  ELSE IF lhs = << >> \/ lhs[Len(lhs)] = "/" THEN lhs \o rhs
  ELSE lhs \o <<"/">> \o rhs

\* the output of a command that has one output, .d files counted
single_output_of_all(cmd) ==
  IF Len(cmd.outputs) = 1 THEN cmd.outputs[1] ELSE << >>

\* the outputs of a command that are no .d files, when there is one of them
single_output(cmd) ==
  LET outputs == SelectSeq(cmd.outputs,
                           LAMBDA o : path_extension(o) # <<".", "d">>)
  IN IF Len(outputs) = 1 THEN outputs[1] ELSE << >>

\* a command the loop of compdb_to_file does not skip
is_compilation(cmd) ==
  /\ cmd.arguments # << >>
  /\ path_filename(cmd.arguments[1]) \in kCompilers
  /\ \A i \in DOMAIN cmd.arguments : cmd.arguments[i] # <<"-", "E">>

\* the inner loop of compdb_to_file: one entry per source file of cmd
RECURSIVE entries_of_inputs(_, _, _)
entries_of_inputs(root_directory, cmd, inputs) ==
  IF inputs = << >> THEN << >>
  ELSE (IF path_extension(Head(inputs)) \in kCompileExtensions
        THEN << [directory |-> path_append(root_directory, cmd.current_directory),
                 file      |-> Head(inputs),
                 output    |-> single_output(cmd),
                 arguments |-> cmd.arguments] >>
        ELSE << >>)
       \o entries_of_inputs(root_directory, cmd, Tail(inputs))

\* the outer loop of compdb_to_file: the commands of the CompilationDatabase
RECURSIVE compdb_commands(_, _)
compdb_commands(root_directory, cmds) ==
  IF cmds = << >> THEN << >>
  ELSE (IF is_compilation(Head(cmds))
        THEN entries_of_inputs(root_directory, Head(cmds), Head(cmds).inputs)
        ELSE << >>)
       \o compdb_commands(root_directory, Tail(cmds))

\* a piece of the JSON text: a punctuation mark, or one object of the array
NoEntry == [directory |-> << >>, file |-> << >>, output |-> << >>,
            arguments |-> << >>]

Mark(t) == [t |-> t, v |-> NoEntry]

\* MessageToJsonString of a CompilationDatabase: {"commands": [ ... ]}
MessageToJsonString(commands) ==
  <<Mark("{"), Mark("commands"), Mark("[")>>
    \o [i \in DOMAIN commands |-> [t |-> "object", v |-> commands[i]]]
    \o <<Mark("]"), Mark("}")>>

\* out_str.find('[') and out_str.rfind(']')
FindMark(text, t) ==
  LET hits == {p \in DOMAIN text : text[p].t = t}
  IN CHOOSE p \in hits : \A q \in hits : p <= q

RFindMark(text, t) ==
  LET hits == {p \in DOMAIN text : text[p].t = t}
  IN CHOOSE p \in hits : \A q \in hits : q <= p

\* a compdb_to_file whose entries take the directory of the command alone
compdb_to_file_cwd(lg) ==
  LET commands == compdb_commands(<< >>, lg.commands)
      out_str  == MessageToJsonString(commands)
  IN IF Len(commands) = 0 THEN <<Mark("["), Mark("]"), Mark("\n")>>
     ELSE SubSeq(out_str, FindMark(out_str, "["), RFindMark(out_str, "]"))

\* compdb_to_file: what is written to the output file
compdb_to_file(lg) ==
  LET commands == compdb_commands(lg.root_dir, lg.commands)
      out_str  == MessageToJsonString(commands)
  IN IF Len(commands) = 0 THEN <<Mark("["), Mark("]"), Mark("\n")>>
     ELSE SubSeq(out_str, FindMark(out_str, "["), RFindMark(out_str, "]"))

-----------------------------------------------------------------------------
(* SpecCompdb: compdb_to_file applied to every bounded Log                 *)

sSubRel   == <<"s">>
sHiddenC  == <<"x", "/", ".", "c">>
sAsmB     == <<"b", ".", "S">>
sDashE    == <<"-", "E">>
sDepFile  == <<"a", ".", "d">>

CdArgumentsPool ==
  { << >>, <<sRootGcc, sDashC, sSrcA>>, <<sGcc, sDashE, sSrcA>>,
    <<sLdLld, sObjA>> }

CdInputsPool == { << >>, <<sSrcA, sObjA>>, <<sHiddenC, sAsmB>> }

\* one output besides a .d file, two of them, none, and an empty path as
\* the one output besides a .d file
CdOutputsPool ==
  { <<sDepFile, sObjA>>, <<sObjA, sObjA>>, <<sDepFile>>, <<sEmpty, sDepFile>> }

CdDirectoryPool == { sSubRel, sOutside }

CdCommandOf(a, i, o, d) ==
  [program               |-> IF a = << >> THEN sGcc ELSE a[1],
   current_directory     |-> d,
   arguments             |-> a,
   environment_variables |-> << >>,
   inputs                |-> i,
   outputs               |-> o]

\* every kind of command with the outputs of a compilation, and a
\* compilation with every kind of outputs
CdCommandPool ==
  { CdCommandOf(a, i, <<sDepFile, sObjA>>, d) :
      a \in CdArgumentsPool, i \in CdInputsPool, d \in CdDirectoryPool }
  \cup
  { CdCommandOf(<<sRootGcc, sDashC, sSrcA>>, <<sSrcA, sObjA>>, o, sSubRel) :
      o \in CdOutputsPool }

CompdbInit ==
  /\ cdPc = "input"
  /\ cdLog \in {LogOf(sRoot, cmds) : cmds \in SeqsUpTo(CdCommandPool, MaxLogCommands)}
  /\ cdOut = << >>
  /\ AnIdle
  /\ RlIdle
  /\ ExIdle
  /\ LgIdle
  /\ DsIdle
  /\ DmIdle
  /\ RpIdle
  /\ PrIdle

CompdbToFile ==
  /\ cdPc = "input"
  /\ cdOut' = compdb_to_file(cdLog)
  /\ cdPc' = "done"
  /\ UNCHANGED <<cdLog, notCd>>

CompdbNext == CompdbToFile

SpecCompdb == CompdbInit /\ [][CompdbNext]_vars

\* the pairs of a command and an input of it the claim speaks of
CompilerNames ==
  { <<"c", "l", "a", "n", "g">>, <<"c", "l", "a", "n", "g", "+", "+">>,
    <<"g", "c", "c">>, <<"g", "+", "+">> }

SourceSuffixes ==
  { <<".", "c">>, <<".", "c", "c">>, <<".", "c", "p", "p">>,
    <<".", "c", "x", "x">>, <<".", "S">> }

HasSuffix(str, suffix) ==
  /\ Len(str) > Len(suffix)
  /\ SubSeq(str, Len(str) - Len(suffix) + 1, Len(str)) = suffix
  /\ str[Len(str) - Len(suffix)] # "/"

Faithful(cmds) ==
  UNION { { <<i, j>> : j \in { k \in DOMAIN cmds[i].inputs :
                                 \E x \in SourceSuffixes :
                                   HasSuffix(cmds[i].inputs[k], x) } } :
          i \in { c \in DOMAIN cmds :
                    /\ cmds[c].arguments # << >>
                    /\ Basename(cmds[c].arguments[1]) \in CompilerNames
                    /\ ~ \E k \in DOMAIN cmds[c].arguments :
                           cmds[c].arguments[k] = sDashE } }

\* how many pairs come before the pair p, in command order then input order
Before(pairs, p) ==
  Cardinality({q \in pairs : q[1] < p[1] \/ (q[1] = p[1] /\ q[2] < p[2])})

\* the objects of the array written to the output file
ObjectsOf(text) == SelectSeq(text, LAMBDA m : m.t = "object")

-----------------------------------------------------------------------------
(* Claims about the exit status of the driver                              *)

\* C12: the exit status of the driver is the exit status of the command
\* line it ran.
C12_ExitStatus ==
  (drPc = "exited" /\ drStatus # -1) => drExit = WEXITSTATUS(drStatus)

-----------------------------------------------------------------------------
(* SpecDriver: the driver exports the root directory, a process of the     *)
(* command calls exec with the environment it inherited                    *)

\* the names interceptor.h gives the variables the driver sets
ENV_command_log == <<"INTERCEPTOR_command_log">>
ENV_root_dir    == <<"INTERCEPTOR_root_dir">>

sROOT_DIR == <<"ROOT_DIR">>

\* the name of an entry NAME=value of environ
NameOf(entry) == SubSeq(entry, 1, Find(entry, <<"=">>) - 1)

\* getenv: the value of the first entry of that name, a null pointer for none
getenv(environ, name) ==
  LET hits == {i \in DOMAIN environ : NameOf(environ[i]) = name}
  IN IF hits = {} THEN NullPtr
     ELSE Substr(environ[CHOOSE i \in hits : \A j \in hits : i <= j],
                 Len(name) + 1)

\* setenv(name, value, 1): the entry of that name is replaced, or one is added
setenv(environ, name, value) ==
  IF \E i \in DOMAIN environ : NameOf(environ[i]) = name
  THEN [i \in DOMAIN environ |->
          IF NameOf(environ[i]) = name THEN name \o <<"=">> \o value
          ELSE environ[i]]
  ELSE Append(environ, name \o <<"=">> \o value)

DriverEnvironPool == { << >>, <<sROOT_DIR \o <<"=">> \o sRoot>>,
                       <<sROOT_DIR \o <<"=">> \o sSub>> }

DriverInit ==
  /\ dsPc = "main"
  /\ dsEnviron \in DriverEnvironPool
  /\ dsCwd \in {sRoot, sSub}
  /\ dsRootDir = << >>
  /\ dsChildCwd = << >>
  /\ dsCommand = << >>
  /\ AnIdle
  /\ RlIdle
  /\ ExIdle
  /\ LgIdle
  /\ CdIdle
  /\ DmIdle
  /\ RpIdle
  /\ PrIdle

\* main(): setup_root_dir, then the constructor of CommandLog exports the
\* path of the log when --command-log was given, then std::system
DriverSetup ==
  /\ dsPc = "main"
  /\ dsRootDir' = setup_root_dir(getenv(dsEnviron, sROOT_DIR), dsCwd)
  /\ \E option \in {<< >>, sLogPath} :
       dsEnviron' =
         LET exported == setenv(dsEnviron, ENV_root_dir,
                                setup_root_dir(getenv(dsEnviron, sROOT_DIR), dsCwd))
         IN IF option = << >> THEN exported
            ELSE setenv(exported, ENV_command_log, option)
  /\ dsPc' = "system"
  /\ UNCHANGED <<dsCwd, dsChildCwd, dsCommand>>
  /\ UNCHANGED notDs

\* a process of the command calls execve with the environ it inherited:
\* instantiate_command and make_relative of process_command
ChildExecve ==
  /\ dsPc = "system"
  /\ \E current_path \in {sRoot, sSub, sOutside}, program \in RelProgPool,
        arguments \in SeqsUpTo(RelArgPool, MaxRelArgs) :
       /\ dsChildCwd' = current_path
       /\ dsCommand' =
            make_relative(
              instantiate_command(program, arguments \o <<NullPtr>>,
                                  dsEnviron \o <<NullPtr>>, current_path),
              current_path)
  /\ dsPc' = "called"
  /\ UNCHANGED <<dsEnviron, dsCwd, dsRootDir>>
  /\ UNCHANGED notDs

DriverNext ==
  \/ DriverSetup
  \/ ChildExecve

SpecDriver == DriverInit /\ [][DriverNext]_vars

\* the working directory is the root or lies below it
AtOrBelow(current_path, root) ==
  StartsWith(WithTrailingSlash(current_path), WithTrailingSlash(root))

\* C13: the driver exports its root directory under the name the
\* canonicaliser reads, so a command of a process whose working directory
\* is at or below the root has its paths rewritten: its current_directory
\* is the path relative to the root and no argument holds the root.
C13_RootReachesShim ==
  dsPc = "called" =>
    /\ getenv(dsEnviron, kEnvRootDirectory) = dsRootDir
    /\ AtOrBelow(dsChildCwd, dsRootDir) =>
         /\ dsCommand.current_directory # dsChildCwd
         /\ FirstChar(dsCommand.current_directory) # "/"

-----------------------------------------------------------------------------
(* Claims about the choice of the analyser and about its results           *)

\* the text behind the last '/' of a text
LastElement(str) ==
  LET slashes == {p \in 1..Len(str) : str[p] = "/"}
  IN IF slashes = {} THEN str
     ELSE SubSeq(str, (CHOOSE p \in slashes : \A q \in slashes : q <= p) + 1,
                 Len(str))

CompilerLinkerNames ==
  { <<"c", "l", "a", "n", "g">>, <<"c", "l", "a", "n", "g", "+", "+">>,
    <<"g", "c", "c">>, <<"g", "+", "+">>, <<"l", "d">>,
    <<"l", "d", ".", "l", "l", "d">>,
    <<"l", "l", "v", "m", "-", "s", "t", "r", "i", "p">> }

ArchiverNames == { <<"a", "r">>, <<"l", "l", "v", "m", "-", "a", "r">> }

\* the command is behind analyze(), which did not end the process
Analysed ==
  /\ InTrace("analyze")
  /\ command.arguments # << >>
  /\ pc # "exited"

\* the command went on, or will go on, through log() and execute()
LoggedAndExecuted ==
  /\ pc \notin {"exited", "crashed"}
  /\ pc # "log" => InTrace("log")
  /\ pc \notin {"log", "execute"} => InTrace("execute")
  /\ kEnvCommandLog \in DOMAIN command.environment_variables
       => \A k \in DOMAIN logFile : logFile[k].arguments = command.arguments

\* C14: the analyser is chosen from arguments[0] alone: a basename of the
\* first rule selects the compiler/linker analyser, one of the second rule
\* the archiver analyser; without a match the command has no inputs and no
\* outputs and goes on through log() and execute().
C14_AnalyserChoice ==
  Analysed =>
    LET a0 == LastElement(command.arguments[1])
    IN /\ a0 \in CompilerLinkerNames =>
            /\ command.inputs =
                 sanitized(analyze_compiler_linker(command.arguments).inputs)
            /\ command.outputs =
                 sanitized(analyze_compiler_linker(command.arguments).outputs)
       /\ (a0 \notin CompilerLinkerNames /\ a0 \in ArchiverNames) =>
            /\ command.inputs =
                 sanitized(analyze_archiver(command.arguments).inputs)
            /\ command.outputs =
                 sanitized(analyze_archiver(command.arguments).outputs)
       /\ (a0 \notin CompilerLinkerNames /\ a0 \notin ArchiverNames) =>
            /\ command.inputs = << >>
            /\ command.outputs = << >>
            /\ LoggedAndExecuted

\* the program is /r/gcc and argv[0] is cc: no rule matches, the source is
\* no input, and the command is logged and executed
C14_Witness ==
  /\ pc = "replaced"
  /\ command # NoCommand
  /\ command.program = sRootGcc
  /\ command.arguments = <<sCc, sRootSrc>>
  /\ command.inputs = << >>
  /\ Len(logFile) = 1
  /\ logFile[1].inputs = << >>
  /\ Len(calls) = 1

RECURSIVE LoopStateBefore(_, _)
LoopStateBefore(arguments, it) ==
  IF it <= 2 THEN LoopStart
  ELSE LET s == LoopStateBefore(arguments, it - 1)
       IN IF s.returned THEN s
          ELSE compiler_linker_body(s, arguments[it - 1])

\* the iteration on the argument behind the -o at position i appends that
\* argument to outputs and does nothing else
ValueOfDashOWins(arguments, i) ==
  LET X == arguments[i + 1]
      s == LoopStateBefore(arguments, i + 1)
      t == compiler_linker_body(s, X)
  IN /\ ~s.returned
     /\ t.result.outputs = Append(s.result.outputs, X)
     /\ t.result.inputs = s.result.inputs
     /\ ~t.returned
     /\ t.skip_next = s.skip_next

\* C16 as stated: for every argument vector and every -o with a following
\* argument X, X is appended to outputs, is not added to inputs, does not
\* abort the analysis and does not set skip_next, whatever the text of X.
C16_Original ==
  (anPc = "done" /\ MatchesCompilerLinker(anArguments[1])) =>
    \A i \in 2..(Len(anArguments) - 1) :
      anArguments[i] = sDashO => ValueOfDashOWins(anArguments, i)

\* C16: for every -o the scan comes to, with a following argument X that is
\* not -o itself, X is appended to outputs, is not added to inputs, does not
\* abort the analysis and does not change skip_next, whatever else X reads;
\* X is among the outputs returned unless the analysis is aborted later.
C16_DashOWins ==
  (anPc = "done" /\ MatchesCompilerLinker(anArguments[1])) =>
    \A i \in 2..(Len(anArguments) - 1) :
      ( /\ anArguments[i] = sDashO
        /\ anArguments[i + 1] # sDashO
        /\ ~LoopStateBefore(anArguments, i).returned )
      => /\ ValueOfDashOWins(anArguments, i)
         /\ ~LoopStateBefore(anArguments, Len(anArguments) + 1).returned
              => \E k \in DOMAIN anResult.outputs :
                   anResult.outputs[k] = anArguments[i + 1]

\* -I leaves skip_next pending, and the value of -o is /dev/null: it is the
\* output, and the analysis is not aborted
C16_Witness ==
  /\ anPc = "done"
  /\ anArguments = <<sGcc, sDashI, sDashO, sDevNull>>
  /\ anResult = [inputs |-> << >>, outputs |-> <<sDevNull>>]

\* arguments[i] is /dev/null or -, and is neither the value of a -o before
\* it nor discarded by a pending skip_next
TestCompilationAt(arguments, i) ==
  /\ arguments[i] \in {sDevNull, sDash}
  /\ ~LoopStateBefore(arguments, i).next_is_out
  /\ ~LoopStateBefore(arguments, i).skip_next

\* C17: when the compiler/linker analyser meets such an argument, the
\* command has no inputs and no outputs, whatever was collected before, and
\* it is not terminated: it is logged with empty inputs and outputs and
\* handed to execute().
C17_TestCompilation ==
  ( /\ InTrace("analyze")
    /\ command.arguments # << >>
    /\ LastElement(command.arguments[1]) \in CompilerLinkerNames
    /\ \E i \in 2..Len(command.arguments) :
         TestCompilationAt(command.arguments, i) )
  => /\ pc # "exited"
     /\ exitStatus = -1
     /\ command.inputs = << >>
     /\ command.outputs = << >>
     /\ LoggedAndExecuted
     /\ \A k \in DOMAIN logFile :
          logFile[k].inputs = << >> /\ logFile[k].outputs = << >>

\* gcc ./a.c - where a.c does not exist: the source is no input, so the
\* process is not ended, and the record has no inputs
C17_Witness ==
  /\ pc = "replaced"
  /\ command # NoCommand
  /\ command.arguments = <<sGcc, sDotSrc, sDash>>
  /\ ~RegularFile(<<"a", ".", "c">>)
  /\ Len(logFile) = 1
  /\ logFile[1].inputs = << >>
  /\ Len(calls) = 1

\* C18: for every call with a regular file as filename, whatever its argv,
\* the arguments of the Command are not empty when analyze_command reads
\* arguments[0].
C18_ArgumentsNonEmpty ==
  InTrace("analyze") => command.arguments # << >>

\* C19: every record of the log has an empty environment_variables map and
\* otherwise the fields of the command, and every call of old_execve is
\* handed the envp of the caller.
C19_EnvironmentCleared ==
  /\ \A k \in DOMAIN logFile :
       /\ DOMAIN logFile[k].environment_variables = {}
       /\ logFile[k].program = command.program
       /\ logFile[k].current_directory = command.current_directory
       /\ logFile[k].arguments = command.arguments
       /\ logFile[k].inputs = command.inputs
       /\ logFile[k].outputs = command.outputs
  /\ \A c \in DOMAIN calls : calls[c].envp = envp

\* a command with three variables in its environment was recorded and
\* old_execve was called with the three entries
C19_Witness ==
  /\ pc = "replaced"
  /\ Len(logFile) = 1
  /\ Cardinality(DOMAIN command.environment_variables) = 2
  /\ envp = <<eJunk, eLog, eRoot, NullPtr>>
  /\ command.inputs = <<<<"a", ".", "c">>>>
  /\ Len(calls) = 1
  /\ calls[1].envp = envp

-----------------------------------------------------------------------------
(* C20: the canonicaliser read backwards                                   *)

\* the textual replacement of r by R in one pass from the left; an empty r
\* occurs nowhere
InverseReplace(str, relative_root, root_directory) ==
  IF relative_root = << >> THEN str
  ELSE SinglePass(str, relative_root, root_directory)

\* C20: when the canonicaliser has rewritten a command, replacing r by R in
\* each of its arguments gives back the argument the caller passed.
C20_RoundTrip ==
  (rlPc = "done" /\ Rewrites(rlInput, rlCwd)) =>
    \A i \in DOMAIN rlCommand.arguments :
      InverseReplace(rlCommand.arguments[i],
                     RelativeRoot(rlCwd, RootDirectory(rlInput)),
                     RootDirectory(rlInput))
        = rlInput.arguments[i]

-----------------------------------------------------------------------------
(* SpecCompact: ~CommandLog run on a file that holds a compacted Log       *)

CompactedPool ==
  { SerializeToOstream(LogOf(root, cmds)) :
      root \in {sRoot, sSub},
      cmds \in SeqsUpTo(LogCommandPool, MaxLogCommands) }

CompactInit ==
  /\ drPc = "read"
  /\ command_log_file = sLogPath
  /\ root_dir \in {sRoot, sSub}
  /\ log = << >>
  /\ drOut = << >>
  /\ drStatus \in {W_EXITCODE(code) : code \in ExitCodes}
  /\ drExit = -1
  /\ file \in CompactedPool
  /\ stream = << >>
  /\ shPc = [p \in Writers |-> "done"]
  /\ shOut = [p \in Writers |-> << >>]
  /\ AnIdle
  /\ RlIdle
  /\ ExIdle
  /\ CdIdle
  /\ DsIdle
  /\ DmIdle
  /\ RpIdle
  /\ PrIdle

CompactNext ==
  \/ DriverCompactRead
  \/ DriverCompactOpen
  \/ DriverCompactWrite
  \/ DriverExit

SpecCompact == CompactInit /\ [][CompactNext]_vars

\* C21: compaction of a file that holds a compacted Log of the same root
\* directory leaves the file byte for byte as it was read.
C21_Idempotent ==
  (/\ drPc \in {"returned", "exited"}
   /\ stream = SerializeToOstream(LogOf(root_dir, stream[1].msg.commands)))
    => file = stream

\* the number of whole records bytes begins with, from pos on
RECURSIVE WholeRecordCount(_, _)
WholeRecordCount(bytes, pos) ==
  IF ParseDelimitedFromZeroCopyStream(bytes, pos)
  THEN 1 + WholeRecordCount(bytes, pos + bytes[pos].of)
  ELSE 0

IsPrefixOf(a, b) == Len(a) <= Len(b) /\ SubSeq(b, 1, Len(a)) = a

\* C22: while the command runs, between the driver's truncation and its
\* compaction, every step of every process leaves the bytes already in the
\* file where they are (the file before the step is a prefix of the file
\* after it) and the number of whole records does not decrease.
C22_Monotonic ==
  [][(drPc = "system" /\ command_log_file # << >>)
       => /\ IsPrefixOf(file, file')
          /\ WholeRecordCount(file', 1) >= WholeRecordCount(file, 1)]_vars

\* a whole record is in the file, a second process has appended a part of
\* its record behind it and a third one is in the middle of its own
C22_Witness ==
  /\ drPc = "system"
  /\ command_log_file # << >>
  /\ WholeRecordCount(file, 1) >= 1
  /\ Len(file) > Len(Framed(file[1].msg.commands))
  /\ \E p, q \in Writers : p # q /\ shPc[p] = "writing" /\ shPc[q] = "writing"

\* the outputs the claim counts: those whose extension is not .d
NotDependencyFiles(outputs) ==
  SelectSeq(outputs, LAMBDA o : ~HasSuffix(o, <<".", "d">>))

\* an object of the JSON text has the key "output": MessageToJsonString
\* prints a string field that is not empty
HasOutput(e) == e.output # << >>

\* C23 as stated: an entry has an output exactly when the outputs of its
\* command hold exactly one entry whose extension is not .d, and the output
\* is that entry.
C23_Original ==
  cdPc = "done" =>
    LET pairs   == Faithful(cdLog.commands)
        objects == ObjectsOf(cdOut)
    IN \A p \in pairs :
         LET e    == objects[Before(pairs, p) + 1].v
             outs == NotDependencyFiles(cdLog.commands[p[1]].outputs)
         IN /\ HasOutput(e) <=> Len(outs) = 1
            /\ HasOutput(e) => e.output = outs[1]

\* C23: an entry has an output exactly when the outputs of its command hold
\* exactly one entry whose extension is not .d and that entry is not the
\* empty string, and the output is that entry; with none, with more than
\* one, or with an empty one, the entry has no output.
C23_SingleOutput ==
  cdPc = "done" =>
    LET pairs   == Faithful(cdLog.commands)
        objects == ObjectsOf(cdOut)
    IN \A p \in pairs :
         LET e    == objects[Before(pairs, p) + 1].v
             outs == NotDependencyFiles(cdLog.commands[p[1]].outputs)
         IN /\ HasOutput(e) <=> (Len(outs) = 1 /\ outs[1] # << >>)
            /\ HasOutput(e) => e.output = outs[1]

\* a compilation with the outputs a.d and a.o, whose entry has the output
\* a.o, then one with only a.d, whose entry has none
C23_Witness ==
  /\ cdPc = "done"
  /\ Len(cdLog.commands) = 2
  /\ cdLog.commands[1].outputs = <<sDepFile, sObjA>>
  /\ cdLog.commands[2].outputs = <<sDepFile>>
  /\ Len(ObjectsOf(cdOut)) = 2
  /\ ObjectsOf(cdOut)[1].v.output = sObjA
  /\ ~HasOutput(ObjectsOf(cdOut)[2].v)

-----------------------------------------------------------------------------
(* SpecDumper: main() of the dumper, from its command line to its exit     *)

EX_USAGE   == 64
EX_NOINPUT == 66

TEXT   == "TEXT"
COMPDB == "COMPDB"

\* one option getopt_long returns, with its argument; "?" is what getopt
\* returns for an option it does not know
Opt(c, optarg) == [c |-> c, optarg |-> optarg]

DumperOptPool ==
  { Opt("l", "log"), Opt("o", "out"), Opt("t", "text"), Opt("t", "compdb"),
    Opt("t", "json"), Opt("?", "") }

MaxDumperOpts == 3

\* Options as parse_arguments starts with them
DefaultOptions == [command_log |-> "", output_format |-> TEXT, output |-> "",
                   usage |-> FALSE]

\* the body of the switch in the loop of parse_arguments, for one option:
\* in case 't' the test for "compdb" has the else branch that calls usage(),
\* also after "text" has been accepted by the if before it
parse_option(result, o) ==
  IF o.c = "l" THEN [result EXCEPT !.command_log = o.optarg]
  ELSE IF o.c = "t"
  THEN LET afterText == IF o.optarg = "text"
                        THEN [result EXCEPT !.output_format = TEXT]
                        ELSE result
       IN IF o.optarg = "compdb"
          THEN [afterText EXCEPT !.output_format = COMPDB]
          ELSE [afterText EXCEPT !.usage = TRUE]
  ELSE IF o.c = "o" THEN [result EXCEPT !.output = o.optarg]
  ELSE [result EXCEPT !.usage = TRUE]

\* the loop of parse_arguments: usage() ends the process at the first option
\* that calls it
RECURSIVE parse_options(_, _)
parse_options(result, opts) ==
  IF opts = << >> \/ result.usage THEN result
  ELSE parse_options(parse_option(result, Head(opts)), Tail(opts))

\* parse_arguments: the loop, then the test that both file names were given
parse_arguments(opts) ==
  LET result == parse_options(DefaultOptions, opts)
  IN IF result.usage THEN result
     ELSE IF result.command_log = "" \/ result.output = ""
     THEN [result EXCEPT !.usage = TRUE]
     ELSE result

DumperInit ==
  /\ dmPc = "parse"
  /\ dmArgv \in SeqsUpTo(DumperOptPool, MaxDumperOpts)
  /\ dmOptions = DefaultOptions
  /\ dmReadable \in BOOLEAN
  /\ dmCreatable \in BOOLEAN
  /\ dmWritten = FALSE
  /\ dmExit = -1
  /\ AnIdle
  /\ RlIdle
  /\ ExIdle
  /\ LgIdle
  /\ CdIdle
  /\ DsIdle
  /\ RpIdle
  /\ PrIdle

\* main(): parse_arguments, which either exits with EX_USAGE or returns
DumperParseArguments ==
  /\ dmPc = "parse"
  /\ dmOptions' = parse_arguments(dmArgv)
  /\ IF dmOptions'.usage
     THEN dmPc' = "exited" /\ dmExit' = EX_USAGE
     ELSE dmPc' = "read" /\ UNCHANGED dmExit
  /\ UNCHANGED <<dmArgv, dmReadable, dmCreatable, dmWritten>>
  /\ UNCHANGED notDm

\* read_log, then the switch of main() on the output format
DumperReadLog ==
  /\ dmPc = "read"
  /\ IF ~dmReadable
     THEN dmPc' = "exited" /\ dmExit' = EX_NOINPUT
     ELSE /\ dmPc' = IF dmOptions.output_format = TEXT THEN "text" ELSE "compdb"
          /\ UNCHANGED dmExit
  /\ UNCHANGED <<dmArgv, dmOptions, dmReadable, dmCreatable, dmWritten>>
  /\ UNCHANGED notDm

\* text_to_file: the stream is tested after open and after flush; then main
\* returns
DumperTextToFile ==
  /\ dmPc = "text"
  /\ IF ~dmCreatable
     THEN dmExit' = EX_CANTCREAT /\ UNCHANGED dmWritten
     ELSE dmExit' = 0 /\ dmWritten' = TRUE
  /\ dmPc' = "exited"
  /\ UNCHANGED <<dmArgv, dmOptions, dmReadable, dmCreatable>>
  /\ UNCHANGED notDm

\* compdb_to_file: the stream is written to and never tested; then main
\* returns
DumperCompdbToFile ==
  /\ dmPc = "compdb"
  /\ dmWritten' = dmCreatable
  /\ dmExit' = 0
  /\ dmPc' = "exited"
  /\ UNCHANGED <<dmArgv, dmOptions, dmReadable, dmCreatable>>
  /\ UNCHANGED notDm

DumperNext ==
  \/ DumperParseArguments
  \/ DumperReadLog
  \/ DumperTextToFile
  \/ DumperCompdbToFile

SpecDumper == DumperInit /\ [][DumperNext]_vars

\* a usage error as the spec has it: an option the dumper does not know, an
\* output type that is neither text nor compdb, or no command log or no
\* output given
UsageError(opts) ==
  \/ \E i \in DOMAIN opts : opts[i].c \notin {"l", "t", "o"}
  \/ \E i \in DOMAIN opts :
       opts[i].c = "t" /\ opts[i].optarg \notin {"text", "compdb"}
  \/ ~ \E i \in DOMAIN opts : opts[i].c = "l"
  \/ ~ \E i \in DOMAIN opts : opts[i].c = "o"

\* C24: the dumper exits with 64 exactly for a usage error (so text, compdb
\* and no output type are all accepted), with 66 when the input cannot be
\* opened, with 73 when the output cannot be created, whatever the output
\* type, and otherwise with 0 after the output was written.
C24_ExitContract ==
  dmPc = "exited" =>
    /\ dmExit = EX_USAGE <=> UsageError(dmArgv)
    /\ (~UsageError(dmArgv) /\ ~dmReadable) => dmExit = EX_NOINPUT
    /\ (~UsageError(dmArgv) /\ dmReadable /\ ~dmCreatable)
         => dmExit = EX_CANTCREAT
    /\ (~UsageError(dmArgv) /\ dmReadable /\ dmCreatable)
         => (dmExit = 0 /\ dmWritten)

\* C25: for one intercepted execve the underlying execve is invoked at most
\* once and log() is entered at most once, also when the underlying execve
\* fails.
C25_NeverRetries ==
  /\ Len(calls) <= 1
  /\ Cardinality({i \in DOMAIN trace : trace[i] = "log"}) <= 1

\* a path without its leading "./", when it has one
WithoutDotSlash(path) ==
  IF Len(path) >= 2 /\ path[1] = "." /\ path[2] = "/"
  THEN SubSeq(path, 3, Len(path))
  ELSE path

WithoutDotSlashes(paths) == [i \in DOMAIN paths |-> WithoutDotSlash(paths[i])]

\* C26: the inputs and outputs of the command behind analyze(), and of the
\* record logged, are those of the analyser with a leading "./" removed, as
\* many and in the same order; the process exits in analyze() exactly when
\* one of the inputs so stripped is not a regular file.
C26_Sanitising ==
  (InTrace("analyze") /\ command.arguments # << >>) =>
    LET raw == analyze_command(command.arguments)
    IN /\ pc = "exited" <=>
            \E i \in DOMAIN raw.inputs :
              ~RegularFile(WithoutDotSlash(raw.inputs[i]))
       /\ pc # "exited" =>
            /\ command.inputs = WithoutDotSlashes(raw.inputs)
            /\ command.outputs = WithoutDotSlashes(raw.outputs)
            /\ \A k \in DOMAIN logFile :
                 /\ logFile[k].inputs = WithoutDotSlashes(raw.inputs)
                 /\ logFile[k].outputs = WithoutDotSlashes(raw.outputs)

\* gcc ./a.c /r/a.c, both regular files: the record has a.c, then /r/a.c
C26_Witness ==
  /\ command # NoCommand
  /\ command.arguments = <<sGcc, sDotSrc, sRootSrc>>
  /\ Len(logFile) = 1
  /\ logFile[1].inputs = <<sSrcA, sRootSrc>>
  /\ logFile[1].outputs = << >>

-----------------------------------------------------------------------------
(* SpecReplace: the while loop of replace_all, one replacement per step    *)

MaxReplacements == 8

sDeep     == <<"/", "r", "/", "s", "/", "t">>
sRootRoot == <<"/", "r", "/", "r">>
sTwice    == <<"/", "r", "/", "/", "r", "/">>
sRootUp   == <<"/", "r", "/", ".", ".">>
sUpTwice  == <<"/", "r", "/", ".", ".", "/", "r", "/", ".", ".", "/">>

RpCwdPool  == RelCwdPool \cup {sDeep}
RpRootPool == {sRoot, sRootSlash, sRootRoot, sTop, sRootUp}
RpStrPool  == RelArgPool \cup {sTwice, sUpTwice}

\* make_relative has reached the loop: the root directory has its trailing
\* slash and the relative root does not contain it
ReplaceInit ==
  /\ rpPc = "loop"
  /\ rpCwd \in RpCwdPool
  /\ rpRoot \in {WithTrailingSlash(root) : root \in RpRootPool}
  /\ rpRelative = RelativeRoot(rpCwd, rpRoot)
  /\ Find(rpRelative, rpRoot) = 0
  /\ rpStr \in RpStrPool
  /\ rpCount = 0
  /\ AnIdle
  /\ RlIdle
  /\ ExIdle
  /\ LgIdle
  /\ CdIdle
  /\ DsIdle
  /\ DmIdle
  /\ PrIdle

\* the condition of the while holds: str.replace at the position found
ReplaceBody ==
  /\ rpPc = "loop"
  /\ Find(rpStr, rpRoot) # 0
  /\ rpCount < MaxReplacements
  /\ rpStr' = Replace(rpStr, Find(rpStr, rpRoot), Len(rpRoot), rpRelative)
  /\ rpCount' = rpCount + 1
  /\ UNCHANGED <<rpPc, rpCwd, rpRoot, rpRelative>>
  /\ UNCHANGED notRp

\* str.find returns npos: the loop is left
ReplaceExit ==
  /\ rpPc = "loop"
  /\ Find(rpStr, rpRoot) = 0
  /\ rpPc' = "done"
  /\ UNCHANGED <<rpCwd, rpRoot, rpRelative, rpStr, rpCount>>
  /\ UNCHANGED notRp

ReplaceNext ==
  \/ ReplaceBody
  \/ ReplaceExit

\* the loop is sequential code of one thread: it takes its next step
SpecReplace == ReplaceInit /\ [][ReplaceNext]_vars /\ WF_vars(ReplaceNext)

\* C27: the loop of replace_all is left after finitely many replacements,
\* and then no occurrence of the root directory is in the string.
C27_Terminates == <>(rpPc = "done" /\ Find(rpStr, rpRoot) = 0)

\* /r/r/a seen from /r/s/t: the relative root ../../ is longer than /r/, its
\* last character and the r/ behind it form /r/ anew, and the loop is left
\* after the second replacement
C27_Witness ==
  /\ rpPc = "done"
  /\ rpCount = 2
  /\ Len(rpRelative) > Len(rpRoot)
  /\ rpRoot = sRootSlash
  /\ rpStr = <<".", ".", "/", ".", ".">> \o rpRelative \o <<"a">>

\* the names of the variables in the envp handed to execve
EnvpNames ==
  { NameOf(UpToNull(envp)[i]) :
      i \in { k \in DOMAIN UpToNull(envp) :
                Find(UpToNull(envp)[k], <<"=">>) # 0 } }

EnvironNames == { NameOf(prEnviron[i]) : i \in DOMAIN prEnviron }

\* C28: with both variables set in the environment of the calling process,
\* a call whose envp lacks the log variable appends no record, and a call
\* whose envp lacks the root variable has no path rewritten, in the command,
\* in the record and in the call of old_execve; in both cases the command
\* goes on to execute() unless analyze() ended the process.
C28_EnvpOnly ==
  {kEnvRootDirectory, kEnvCommandLog} \subseteq EnvironNames =>
    /\ kEnvCommandLog \notin EnvpNames => logFile = << >>
    /\ (kEnvRootDirectory \notin EnvpNames /\ InTrace("make_relative")) =>
         /\ command.program = filename
         /\ command.arguments = UpToNull(argv)
         /\ command.current_directory = cwd
         /\ \A k \in DOMAIN logFile :
              /\ logFile[k].program = filename
              /\ logFile[k].arguments = UpToNull(argv)
              /\ logFile[k].current_directory = cwd
         /\ \A k \in DOMAIN calls : calls[k].argv = argv
    /\ ( /\ kEnvRootDirectory \notin EnvpNames \/ kEnvCommandLog \notin EnvpNames
         /\ InTrace("instantiate_command")
         /\ pc \notin {"make_relative", "analyze", "exited", "crashed", "log",
                       "execute"} )
       => InTrace("execute")

\* a call from /r/s with an empty envp by a process that has both variables
\* set: /r/a.c is not rewritten, nothing is recorded, the command is executed
C28_Witness ==
  /\ pc = "replaced"
  /\ {kEnvRootDirectory, kEnvCommandLog} \subseteq EnvironNames
  /\ envp = <<NullPtr>>
  /\ cwd = sSub
  /\ command # NoCommand
  /\ command.arguments = <<sGcc, sRootSrc>>
  /\ logFile = << >>
  /\ Len(calls) = 1
  /\ calls[1].argv = <<sGcc, sRootSrc, NullPtr>>

====
